---- MODULE Spec2Model ----
(***************************************************************************)
(* Chorus Bridge: the federation envelope pipeline                         *)
(* (BridgeService.process_federation_envelope behind the federation_send   *)
(* route), the replay / idempotency / JTI caches of BridgeRepository and   *)
(* the TrustStore.                                                         *)
(*                                                                         *)
(* Several bridge processes share one database.  Each process runs an      *)
(* asyncio event loop: code between two awaits runs without interleaving   *)
(* inside a process, while database transactions of different processes    *)
(* interleave statement by statement.                                      *)
(***************************************************************************)
EXTENDS Integers, FiniteSets, Sequences, TLC

\* ------------------------------------------------------------------------
\* Bounds of the model
\* ------------------------------------------------------------------------

\* the wall clock (time.time(), in abstract seconds) runs from 0 to MaxTime
MaxTime == 2

\* ------------------------------------------------------------------------
\* Settings (core/settings.py), TTLs scaled down to the clock of the model
\* ------------------------------------------------------------------------

replay_cache_ttl_seconds == 1

idempotency_ttl_seconds == 1

None == "None"

Procs == {"bridge-1", "bridge-2"}

Requests == {"r1", "r2"}

Instances == {"stage-A", "stage-Z"}

\* Ed25519 key pairs, named by their verify key
Keys == {"kA", "kZ"}

\* day numbers carried by inner messages, disjoint from the clock values
Days == {7, 9}

Subjects == {"x", "y"}

Targets == {"https://stage-t", "https://stage-u"}

MessageTypes ==
    {"PostAnnouncement", "UserRegistration", "DayProof", "ModerationEvent",
     "InstanceJoinRequest", "CommunityCreation", "UserUpdate",
     "CommunityUpdate", "CommunityMembershipUpdate", "BlacklistUpdate"}

\* the message_type tags a sender can put on the wire
WireTypes == MessageTypes \cup {"Gossip"}

\* message_data: opaque bytes.  wellFormed says whether protobuf FromString
\* accepts them; day, subject and aux are the fields the parse yields
\* (subject: the natural key, or instance_id; aux: instance_pubkey of an
\* InstanceJoinRequest, action of a BlacklistUpdate).
Garbage == [wellFormed |-> FALSE, day |-> 7, subject |-> "x", aux |-> "a"]

AuxValues == {"a", "b"}

MessageData ==
    {Garbage} \cup [wellFormed : {TRUE}, day : Days, subject : Subjects, aux : AuxValues]

\* signature: the key that signed message_data, or "bad" (verifies under no key)
Signatures == Keys \cup {"bad"}

Envelopes ==
    [sender_instance : Instances, message_type : WireTypes,
     message_data : MessageData, signature : Signatures]

IdempotencyKeys == {None, "abc-123"}

InstanceOfSubject(s) == IF s = "x" THEN "stage-A" ELSE "stage-Z"

PubkeyOfAux(a) == IF a = "a" THEN "kA" ELSE "kZ"

ActionOfAux(a) == IF a = "a" THEN "add" ELSE "remove"

\* ------------------------------------------------------------------------
\* State
\* ------------------------------------------------------------------------

VARIABLES
    now,              \* int(time.time())
    req,              \* the federation_send calls: their inputs and position
    flags,            \* BridgeSettings.federation_*_enabled
    targetStages,     \* BridgeSettings.federation_target_stages
    trustStore,       \* TrustStore._keys of each bridge process
    envelopeCache,    \* table envelope_cache  (primary key fingerprint)
    idempotencyKeys,  \* table idempotency_keys (primary key instance_id, key)
    entityRows,       \* tables federated_posts, registered_users, federated_communities
    outboundLedger,   \* table outbound_federation_ledger
    submissions,      \* calls of ConductorClient.submit_event made by the pipeline
    jtiCache,         \* table jti_cache (primary key jti)
    sess,             \* SpecRepo: the repository call each process is in
    exportLedger,     \* table export_ledger
    wk,               \* the ActivityPubDeliveryWorker of each bridge process
    life,             \* running and the HTTP client of each such worker
    ob,               \* the OutboundFederationWorker of each bridge process
    cb,               \* the CircuitBreaker of one conductor client
    calls,            \* the calls of _execute_with_retry on that client
    pool,             \* a ConductorConnectionPool: health marks and index
    pcalls,           \* the requests made through the pool
    cache,            \* a ConductorCache
    auth,             \* the JWT check of the request each bridge process handles
    accepted,         \* the bearer tokens that have passed the JWT check
    requests,         \* RateLimiter.requests of each bridge process
    admitted,         \* per sender and window, the requests let through
    dayProofs,        \* the day_proofs table
    dp,               \* the get_day_proof call of each bridge process
    prints,           \* two envelopes and the fingerprints computed for them
    published,        \* the publish timestamps derive_publish_timestamp has returned
    signedCalls,      \* the signed JSON calls handled so far
    signedRows,       \* export rows and moderation records they wrote
    signedEvents,     \* the Conductor events they submitted
    edge,             \* the last request answered at the edge of each process
    authentic,        \* the authenticated requests among those counted
    submits,          \* the submit_event calls of a conductor client
    received          \* how often the backend has received the event of each

\* the state outside the envelope pipeline and the remember_* caches
coreVars ==
    <<req, flags, targetStages, trustStore, envelopeCache, idempotencyKeys,
      entityRows, submissions, jtiCache, sess>>

apVars == <<exportLedger, wk, life>>

cbVars == <<cb, calls>>

poolVars == <<pool, pcalls>>

\* the components that stand alone
authVars == <<auth, accepted>>

rlVars == <<requests, admitted>>

dpVars == <<dayProofs, dp>>

fpVars == <<prints>>

pubVars == <<published>>

sjVars == <<signedCalls, signedRows, signedEvents>>

edgeVars == <<edge, authentic>>

submitVars == <<submits, received>>

restVars ==
    <<cache,
      authVars,
      rlVars,
      dpVars,
      fpVars,
      pubVars,
      sjVars,
      edgeVars,
      submitVars>>

auxVars == <<apVars, ob, cbVars, poolVars, restVars>>

vars ==
    <<now, req, flags, targetStages, trustStore, envelopeCache, idempotencyKeys,
      entityRows, outboundLedger, submissions, jtiCache, sess, auxVars>>

\* ------------------------------------------------------------------------
\* core/security.py, core/trust.py
\* ------------------------------------------------------------------------

\* BLAKE3 over the length-prefixed fields: one digest per distinct triple
envelope_fingerprint(sender, mtype, data) == <<sender, mtype, data>>

Fingerprint(env) ==
    envelope_fingerprint(env.sender_instance, env.message_type, env.message_data)

\* verify_key.verify(payload, signature): TRUE iff the signature was made over
\* this payload with the signing key of verify_key
verify_signature(signature, verify_key) == signature = verify_key

\* the methods class BridgeRepository defines; the other functions of
\* db/repository.py are nested inside save_federated_community
RepositoryMethods ==
    {"upsert_day_proof", "get_day_proof", "remember_envelope",
     "remember_idempotency_key", "enqueue_export", "get_queued_exports",
     "update_export_status", "update_export_for_retry", "quarantine_envelope",
     "save_federated_post", "save_registered_user", "remember_jti",
     "save_federated_community"}

\* the methods class TrustStore defines
TrustStoreMethods ==
    {"from_hex_mapping", "get", "contains", "add_trusted_peer",
     "get_trusted_peers_info"}

\* ------------------------------------------------------------------------
\* BridgeService._derive_epoch and the dispatch table
\* ------------------------------------------------------------------------

NoEpoch == -1

\* message_type_map of _derive_epoch
EpochTypeMap ==
    {"PostAnnouncement", "UserRegistration", "DayProof", "ModerationEvent",
     "InstanceJoinRequest", "CommunityCreation", "UserUpdate",
     "CommunityUpdate", "CommunityMembershipUpdate"}

\* message_type_map of process_federation_envelope
DispatchTypeMap == MessageTypes

\* the inner messages that declare creation_day, registration_day,
\* update_day or day_number
HasDayField(mtype) == mtype \in MessageTypes

\* variant: epoch 0 where no day can be extracted
_derive_epoch_or_default(env) ==
    IF /\ env.message_type \in EpochTypeMap
       /\ env.message_data.wellFormed
       /\ HasDayField(env.message_type)
    THEN env.message_data.day
    ELSE 0

_derive_epoch(env) ==
    IF /\ env.message_type \in EpochTypeMap
       /\ env.message_data.wellFormed
       /\ HasDayField(env.message_type)
    THEN env.message_data.day
    ELSE NoEpoch

FlagOf ==
    [PostAnnouncement |-> "federation_post_announce_enabled",
     UserRegistration |-> "federation_user_registration_enabled",
     DayProof |-> "federation_day_proof_consumption_enabled",
     ModerationEvent |-> "federation_moderation_events_enabled",
     CommunityCreation |-> "federation_community_creation_enabled",
     UserUpdate |-> "federation_user_update_enabled",
     CommunityUpdate |-> "federation_community_update_enabled",
     CommunityMembershipUpdate |-> "federation_community_membership_update_enabled"]

FlaggedTypes == DOMAIN FlagOf

FlagNames == {FlagOf[t] : t \in FlaggedTypes}

\* the defaults of BridgeSettings
DefaultFlags ==
    [f \in FlagNames |-> f # "federation_user_registration_enabled"]

AllEnabled == [f \in FlagNames |-> TRUE]

AllDisabled == [f \in FlagNames |-> FALSE]

\* variant: every handler registered, whatever the feature flags say
AllHandlers(fl) == FlaggedTypes \cup {"BlacklistUpdate", "InstanceJoinRequest"}

\* BridgeService.__init__: the keys of self._message_handlers
MessageHandlers(fl) ==
    {t \in FlaggedTypes : fl[FlagOf[t]]} \cup {"BlacklistUpdate", "InstanceJoinRequest"}

\* ------------------------------------------------------------------------
\* api/v1/routes.py: the HTTP status federation_send answers with
\* ------------------------------------------------------------------------

ValueErrors == {"SignatureVerificationError", "ValueError", "ValidationError"}

HttpStatus(exc) ==
    CASE exc = None -> 202
      [] exc = "DuplicateEnvelopeError" -> 409
      [] exc = "DuplicateIdempotencyKeyError" -> 409
      [] exc = "PermissionError" -> 403
      [] exc \in ValueErrors -> 400
      [] OTHER -> 500

\* ------------------------------------------------------------------------
\* db/repository.py: the replay and idempotency caches
\*
\* remember_* runs  DELETE expired; SELECT by primary key; INSERT  in one
\* session and commits when the session block is left.  The SELECT and the
\* commit are separate statements: another process can commit in between,
\* and the commit of a row whose primary key exists by then raises
\* IntegrityError.
\* ------------------------------------------------------------------------

\* variant: DELETE ... WHERE expires_at <= now
PurgeExpiredInclusive(rows, t) == {row \in rows : ~(row.expires_at <= t)}

\* _purge_expired_envelopes: DELETE ... WHERE expires_at < now
PurgeExpired(rows, t) == {row \in rows : ~(row.expires_at < t)}

EnvelopePresent(rows, fp) == \E row \in rows : row.fingerprint = fp

\* variant: the two columns of the primary key in the wrong order
IdempotencyPresentSwapped(rows, inst, key) ==
    \E row \in rows : row.instance_id = key /\ row.key = inst

IdempotencyPresent(rows, inst, key) ==
    \E row \in rows : row.instance_id = inst /\ row.key = key

\* variant: expires_at without the TTL added
EnvelopeRowNoTtl(fp, env, t) ==
    [fingerprint |-> fp, sender_instance |-> env.sender_instance,
     message_type |-> env.message_type, expires_at |-> t]

EnvelopeRow(fp, env, t) ==
    [fingerprint |-> fp, sender_instance |-> env.sender_instance,
     message_type |-> env.message_type, expires_at |-> t + replay_cache_ttl_seconds]

IdempotencyRow(inst, key, t) ==
    [instance_id |-> inst, key |-> key, expires_at |-> t + idempotency_ttl_seconds]

JtiPresent(rows, jti) == \E row \in rows : row.jti = jti

JtiRow(jti, inst, expires_at) ==
    [jti |-> jti, instance_id |-> inst, expires_at |-> expires_at]

\* The three remember_* methods called directly, one call per bridge
\* process.  arg: the envelope, <<instance_id, key>>, or
\* <<jti, instance_id, expires_at - now>>.
IdleSession == [op |-> "idle", arg |-> None, t |-> 0, state |-> "idle", result |-> None]

RepoCalls ==
    [remember_envelope |->
        {env \in Envelopes :
            /\ env.sender_instance = "stage-A" /\ env.signature = "kA"
            /\ env.message_type = "PostAnnouncement"
            /\ env.message_data.wellFormed /\ env.message_data.aux = "a"
            /\ env.message_data.subject = "x"},
     remember_idempotency_key |-> {"stage-A"} \X {"abc-123", "def-456"},
     remember_jti |-> {"jti-1", "jti-2"} \X {"stage-A"} \X {1, 2}]

TableOf(op) ==
    CASE op = "remember_envelope" -> envelopeCache
      [] op = "remember_idempotency_key" -> idempotencyKeys
      [] OTHER -> jtiCache

\* session.get(Model, primary key) on the rows given
Present(op, rows, arg) ==
    CASE op = "remember_envelope" -> EnvelopePresent(rows, Fingerprint(arg))
      [] op = "remember_idempotency_key" -> IdempotencyPresent(rows, arg[1], arg[2])
      [] OTHER -> JtiPresent(rows, arg[1])

NewRow(op, arg, t) ==
    CASE op = "remember_envelope" -> EnvelopeRow(Fingerprint(arg), arg, t)
      [] op = "remember_idempotency_key" -> IdempotencyRow(arg[1], arg[2], t)
      [] OTHER -> JtiRow(arg[1], arg[2], t + arg[3])

SetTable(op, rows) ==
    /\ envelopeCache' = IF op = "remember_envelope" THEN rows ELSE envelopeCache
    /\ idempotencyKeys' = IF op = "remember_idempotency_key" THEN rows ELSE idempotencyKeys
    /\ jtiCache' = IF op = "remember_jti" THEN rows ELSE jtiCache

\* the call up to its SELECT: expired rows are deleted, an existing row
\* makes the call return False
RepoCall(s, op, arg) ==
    LET rows == PurgeExpired(TableOf(op), now) IN
    /\ sess[s].state = "idle"
    /\ SetTable(op, rows)
    /\ sess' = [sess EXCEPT ![s] =
                  IF Present(op, rows, arg)
                  THEN [op |-> op, arg |-> arg, t |-> now, state |-> "returned",
                        result |-> "False"]
                  ELSE [op |-> op, arg |-> arg, t |-> now, state |-> "selected",
                        result |-> None]]
    /\ UNCHANGED <<now, req, flags, targetStages, trustStore, entityRows,
                   outboundLedger, submissions, auxVars>>

\* the INSERT and the commit
RepoCommit(s) ==
    LET c == sess[s] IN
    /\ c.state = "selected"
    /\ IF Present(c.op, TableOf(c.op), c.arg)
       THEN /\ sess' = [sess EXCEPT ![s].state = "returned",
                                    ![s].result = "IntegrityError"]
            /\ UNCHANGED <<envelopeCache, idempotencyKeys, jtiCache>>
       ELSE /\ sess' = [sess EXCEPT ![s].state = "returned", ![s].result = "True"]
            /\ SetTable(c.op, TableOf(c.op) \cup {NewRow(c.op, c.arg, c.t)})
    /\ UNCHANGED <<now, req, flags, targetStages, trustStore, entityRows,
                   outboundLedger, submissions, auxVars>>

\* ------------------------------------------------------------------------
\* BridgeService.process_federation_envelope, per request record q
\*
\* pc is the position of the call; exc the exception it ended with (None: it
\* returned receipt and fingerprint).  called, verified and remembered record
\* what happened: the clock at the call, that verify_signature passed, that
\* remember_envelope returned True.
\* ------------------------------------------------------------------------

IdleRequest ==
    [pc |-> "idle", proc |-> "bridge-1",
     envelope |-> [sender_instance |-> "stage-A", message_type |-> "Gossip",
                   message_data |-> Garbage, signature |-> "bad"],
     idempotency_key |-> None, stage_instance |-> "stage-A",
     called |-> 0, t |-> 0, epoch |-> NoEpoch, exc |-> None,
     verified |-> FALSE, remembered |-> FALSE]

Raise(q, exc) == [q EXCEPT !.pc = "done", !.exc = exc, !.t = 0]

\* positions inside a stretch of synchronous code: the event loop of the
\* process runs nothing else until the stretch ends
MidSync == {"env_commit", "idem_commit"}

LoopFree(r, p) ==
    \A o \in Requests \ {r} : req[o].proc = p => req[o].pc \notin MidSync

\* variant: the handler runs without waiting for the Conductor
AfterIdempotencyDispatchFirst(q) ==
    LET epoch == _derive_epoch(q.envelope) IN
    IF epoch = NoEpoch
    THEN Raise(q, "ValueError")
    ELSE [q EXCEPT !.pc = "dispatch", !.epoch = epoch, !.t = 0]

\* lines 260-268: the ConductorEvent is built, its epoch from _derive_epoch
AfterIdempotency(q) ==
    LET epoch == _derive_epoch(q.envelope) IN
    IF epoch = NoEpoch
    THEN Raise(q, "ValueError")
    ELSE [q EXCEPT !.pc = "submit", !.epoch = epoch, !.t = 0]

\* lines 247-258, up to the SELECT of remember_idempotency_key
AfterEnvelope(q) ==
    IF q.idempotency_key # None
    THEN IF IdempotencyPresent(PurgeExpired(idempotencyKeys, now),
                               q.stage_instance, q.idempotency_key)
         THEN Raise(q, "DuplicateIdempotencyKeyError")
         ELSE [q EXCEPT !.pc = "idem_commit", !.t = now]
    ELSE AfterIdempotency(q)

\* variant: the result of verify_signature is ignored
AfterReceiveUnverified(q) ==
    LET verify_key == trustStore[q.proc][q.envelope.sender_instance] IN
    IF verify_key = None
    THEN Raise(q, "PermissionError")
    ELSE IF EnvelopePresent(PurgeExpired(envelopeCache, now), Fingerprint(q.envelope))
    THEN Raise([q EXCEPT !.verified = TRUE], "DuplicateEnvelopeError")
    ELSE [q EXCEPT !.pc = "env_commit", !.t = now, !.verified = TRUE]

\* lines 206-245, up to the SELECT of remember_envelope
AfterReceive(q) ==
    LET verify_key == trustStore[q.proc][q.envelope.sender_instance] IN
    IF verify_key = None
    THEN Raise(q, "PermissionError")
    ELSE IF ~verify_signature(q.envelope.signature, verify_key)
    THEN Raise(q, "SignatureVerificationError")
    ELSE IF EnvelopePresent(PurgeExpired(envelopeCache, now), Fingerprint(q.envelope))
    THEN Raise([q EXCEPT !.verified = TRUE], "DuplicateEnvelopeError")
    ELSE [q EXCEPT !.pc = "env_commit", !.t = now, !.verified = TRUE]

\* federation_send is called with an envelope, the Idempotency-Key and
\* X-Chorus-Instance-Id headers, on bridge process p
Receive(r, p, env, key, stage) ==
    /\ req[r].pc = "idle"
    /\ LoopFree(r, p)
    /\ LET q == [IdleRequest EXCEPT !.proc = p, !.envelope = env, !.called = now,
                                    !.idempotency_key = key, !.stage_instance = stage]
           q2 == AfterReceive(q)
       IN /\ req' = [req EXCEPT ![r] = q2]
          /\ envelopeCache' =
                IF q2.exc \in {"PermissionError", "SignatureVerificationError"}
                THEN envelopeCache
                ELSE PurgeExpired(envelopeCache, now)
    /\ UNCHANGED <<now, flags, targetStages, trustStore, idempotencyKeys,
                   entityRows, outboundLedger, submissions>>
    /\ UNCHANGED <<jtiCache, sess, auxVars>>

\* the session of remember_envelope commits
EnvCommit(r) ==
    LET q == req[r]
        fp == Fingerprint(q.envelope)
    IN
    /\ q.pc = "env_commit"
    /\ IF EnvelopePresent(envelopeCache, fp)
       THEN /\ req' = [req EXCEPT ![r] = Raise(q, "IntegrityError")]
            /\ UNCHANGED <<envelopeCache, idempotencyKeys>>
       ELSE /\ envelopeCache' = envelopeCache \cup {EnvelopeRow(fp, q.envelope, q.t)}
            /\ req' = [req EXCEPT ![r] = AfterEnvelope([q EXCEPT !.remembered = TRUE])]
            /\ idempotencyKeys' =
                  IF q.idempotency_key # None
                  THEN PurgeExpired(idempotencyKeys, now)
                  ELSE idempotencyKeys
    /\ UNCHANGED <<now, flags, targetStages, trustStore, entityRows,
                   outboundLedger, submissions>>
    /\ UNCHANGED <<jtiCache, sess, auxVars>>

\* the session of remember_idempotency_key commits
IdemCommit(r) ==
    LET q == req[r] IN
    /\ q.pc = "idem_commit"
    /\ IF IdempotencyPresent(idempotencyKeys, q.stage_instance, q.idempotency_key)
       THEN /\ req' = [req EXCEPT ![r] = Raise(q, "IntegrityError")]
            /\ UNCHANGED idempotencyKeys
       ELSE /\ idempotencyKeys' = idempotencyKeys \cup
                  {IdempotencyRow(q.stage_instance, q.idempotency_key, q.t)}
            /\ req' = [req EXCEPT ![r] = AfterIdempotency(q)]
    /\ UNCHANGED <<now, flags, targetStages, trustStore, envelopeCache,
                   entityRows, outboundLedger, submissions>>
    /\ UNCHANGED <<jtiCache, sess, auxVars>>

\* line 269: await self._conductor.submit_event(event).  The call returns a
\* receipt, raises (transport error, timeout, breaker open), or the request
\* is cancelled while it waits.
SubmitOutcomes == {"receipt", "error", "cancelled"}

ConductorEvent(r, q, outcome) ==
    [req |-> r, event_type |-> "federation_envelope", epoch |-> q.epoch,
     payload |-> q.envelope.message_data,
     sender_instance |-> q.envelope.sender_instance,
     message_type |-> q.envelope.message_type, outcome |-> outcome]

Submit(r, outcome) ==
    LET q == req[r] IN
    /\ q.pc = "submit"
    /\ LoopFree(r, q.proc)
    /\ submissions' = submissions \cup {ConductorEvent(r, q, outcome)}
    /\ req' = [req EXCEPT ![r] =
                 CASE outcome = "receipt" -> [q EXCEPT !.pc = "dispatch"]
                   [] outcome = "error" -> Raise(q, "ConductorError")
                   [] OTHER -> Raise(q, "CancelledError")]
    /\ UNCHANGED <<now, flags, targetStages, trustStore, envelopeCache,
                   idempotencyKeys, entityRows, outboundLedger>>
    /\ UNCHANGED <<jtiCache, sess, auxVars>>

\* ------------------------------------------------------------------------
\* The handlers (_handle_*): lines 315-810
\* ------------------------------------------------------------------------

\* the repository method each saving handler calls, its table, and whether
\* the table's primary key is the natural key of the message (else a uuid)
SaveOf ==
    [PostAnnouncement |->
        [method |-> "save_federated_post", table |-> "federated_posts", keyed |-> TRUE],
     UserRegistration |->
        [method |-> "save_registered_user", table |-> "registered_users", keyed |-> TRUE],
     ModerationEvent |->
        [method |-> "record_moderation_event", table |-> "moderation_events", keyed |-> FALSE],
     CommunityCreation |->
        [method |-> "save_federated_community", table |-> "federated_communities",
         keyed |-> TRUE],
     UserUpdate |->
        [method |-> "save_federated_user_update", table |-> "federated_user_updates",
         keyed |-> FALSE],
     CommunityUpdate |->
        [method |-> "save_federated_community_update",
         table |-> "federated_community_updates", keyed |-> FALSE],
     CommunityMembershipUpdate |->
        [method |-> "save_federated_community_membership",
         table |-> "federated_community_memberships", keyed |-> FALSE]]

Effect(exc, rows, ledger, keys) ==
    [exc |-> exc, rows |-> rows, ledger |-> ledger, keys |-> keys]

OutboundRow(r, q, target) ==
    [id |-> <<r, target>>, target_instance_url |-> target,
     message_type |-> q.envelope.message_type,
     raw_envelope |-> [q.envelope EXCEPT !.signature = ""],
     status |-> "queued", attempts |-> 0, retry_at |-> now, created_at |-> now]

\* variant: the row of one target is written before the loop fails
FanOutFirstOnly(r, q, rows, keys) ==
    IF targetStages = {}
    THEN Effect(None, rows, {}, keys)
    ELSE Effect("AttributeError", rows,
                {OutboundRow(r, q, CHOOSE target \in targetStages : TRUE)}, keys)

\* the loop over settings.federation_target_stages that ends a handler
FanOut(r, q, rows, keys) ==
    IF targetStages = {}
    THEN Effect(None, rows, {}, keys)
    ELSE IF "enqueue_outbound_federation_message" \in RepositoryMethods
    THEN Effect(None, rows, {OutboundRow(r, q, target) : target \in targetStages}, keys)
    ELSE Effect("AttributeError", rows, {}, keys)

SaveHandler(r, q, keys) ==
    LET save == SaveOf[q.envelope.message_type]
        pk == IF save.keyed THEN <<"key", q.envelope.message_data.subject>>
                            ELSE <<"uuid", r>>
        row == [table |-> save.table, pk |-> pk,
                sender_instance |-> q.envelope.sender_instance,
                day |-> q.envelope.message_data.day, req |-> r]
    IN
    IF save.method \notin RepositoryMethods
    THEN Effect("AttributeError", {}, {}, keys)
    ELSE IF \E old \in entityRows : old.table = save.table /\ old.pk = pk
    THEN Effect("IntegrityError", {}, {}, keys)
    ELSE FanOut(r, q, {row}, keys)

\* _handle_day_proof_message builds DayProofResponse(proof=""), which the
\* schema (proof: min_length=2) rejects before anything is stored
DayProofHandler(r, q, keys) == Effect("ValidationError", {}, {}, keys)

\* variant: the request is fanned out and the trust store is left alone
JoinHandlerFanOutOnly(r, q, keys) == FanOut(r, q, {}, keys)

\* _handle_instance_join_request
JoinHandler(r, q, keys) ==
    FanOut(r, q, {},
           [keys EXCEPT ![InstanceOfSubject(q.envelope.message_data.subject)] =
                            PubkeyOfAux(q.envelope.message_data.aux)])

\* _handle_blacklist_update
BlacklistHandler(r, q, keys) ==
    IF ActionOfAux(q.envelope.message_data.aux) = "add"
    THEN IF "remove_trusted_peer" \in TrustStoreMethods
         THEN Effect(None, {}, {},
                     [keys EXCEPT ![InstanceOfSubject(q.envelope.message_data.subject)] = None])
         ELSE Effect("AttributeError", {}, {}, keys)
    ELSE Effect(None, {}, {}, keys)

\* lines 295-311: the handler looked up by message_type, if there is one
HandlerEffect(r, q, keys) ==
    LET mtype == q.envelope.message_type IN
    IF mtype \notin MessageHandlers(flags)
    THEN Effect(None, {}, {}, keys)
    ELSE CASE mtype \in DOMAIN SaveOf -> SaveHandler(r, q, keys)
           [] mtype = "DayProof" -> DayProofHandler(r, q, keys)
           [] mtype = "InstanceJoinRequest" -> JoinHandler(r, q, keys)
           [] OTHER -> BlacklistHandler(r, q, keys)

\* lines 276-313: the code after the receipt, synchronous to the return
Dispatch(r) ==
    LET q == req[r]
        eff == HandlerEffect(r, q, trustStore[q.proc])
    IN
    /\ q.pc = "dispatch"
    /\ LoopFree(r, q.proc)
    /\ entityRows' = entityRows \cup eff.rows
    /\ outboundLedger' = outboundLedger \cup eff.ledger
    /\ trustStore' = [trustStore EXCEPT ![q.proc] = eff.keys]
    /\ req' = [req EXCEPT ![r] = Raise(q, eff.exc)]
    /\ UNCHANGED <<now, flags, targetStages, envelopeCache, idempotencyKeys,
                   submissions>>
    /\ UNCHANGED <<jtiCache, sess, auxVars>>

Tick ==
    /\ now < MaxTime
    /\ now' = now + 1
    /\ UNCHANGED <<req, flags, targetStages, trustStore, envelopeCache,
                   idempotencyKeys, entityRows, outboundLedger, submissions>>
    /\ UNCHANGED <<jtiCache, sess, auxVars>>

\* ------------------------------------------------------------------------
\* ActivityPub delivery worker (services/activitypub_worker.py) over the
\* table export_ledger.  app.py starts one worker in each bridge process; all
\* of them poll the one table.

activitypub_max_retries == 1
activitypub_retry_delay_seconds == 1

ExportIds == {"j1", "j2"}
\* target_url of a row: "" is what queue_activitypub_export passes, and a
\* post to it raises httpx.UnsupportedProtocol; the other is an outbox url
ExportUrls == {"", "https://ap-outbox"}

NoRows == [j \in {} |-> None]

\* the row enqueue_export builds (status is its caller's "queued")
ExportRow(target_url, t) ==
    [status |-> "queued", attempts |-> 0, retry_at |-> t,
     target_url |-> target_url]

SleepingWorker == [pc |-> "sleep", batch |-> <<>>]

\* a worker after start(): self.running, and self.client open
StartedWorker == [running |-> TRUE, closed |-> FALSE]

\* get_queued_exports: no ORDER BY, no row lock, no status change
DueExports ==
    {j \in DOMAIN exportLedger :
        /\ exportLedger[j].status \in {"queued", "retrying"}
        /\ exportLedger[j].retry_at <= now}

\* the ORM objects the query returns, detached: a copy of each row
ExportItem(j) == [id |-> j, attempts |-> exportLedger[j].attempts,
                  target_url |-> exportLedger[j].target_url]

Orders(S) ==
    {q \in UNION {[1..n -> S] : n \in {Cardinality(S)}} :
        \A a, b \in 1..Len(q) : a # b => q[a] # q[b]}

\* update_export_status: session.get, then an unconditional write
update_export_status(ledger, j, status) ==
    IF j \in DOMAIN ledger
    THEN [ledger EXCEPT ![j].status = status]
    ELSE ledger

\* update_export_for_retry: session.get, then an unconditional write
update_export_for_retry(ledger, j, new_attempts, retry_at) ==
    IF j \in DOMAIN ledger
    THEN [ledger EXCEPT ![j].status = "retrying",
                        ![j].attempts = new_attempts,
                        ![j].retry_at = retry_at]
    ELSE ledger

\* _handle_delivery_failure with the delay of the attempt after the next
_handle_delivery_failure_next_delay(ledger, item) ==
    LET new_attempts == item.attempts + 1 IN
    IF new_attempts <= activitypub_max_retries
    THEN update_export_for_retry(ledger, item.id, new_attempts,
             now + (2 ^ (new_attempts + 1)) * activitypub_retry_delay_seconds)
    ELSE update_export_status(ledger, item.id, "failed")

\* _handle_delivery_failure, on the copy of the row the poll returned
_handle_delivery_failure(ledger, item) ==
    LET new_attempts == item.attempts + 1 IN
    IF new_attempts <= activitypub_max_retries
    THEN update_export_for_retry(ledger, item.id, new_attempts,
             now + (2 ^ new_attempts) * activitypub_retry_delay_seconds)
    ELSE update_export_status(ledger, item.id, "failed")

\* what the post to target_url can come to
PostOutcomes(target_url) ==
    IF target_url = "" THEN {"error"} ELSE {"2xx", "error"}

\* what self.client.post comes to: a closed client raises
ClientOutcomes(w, target_url) ==
    IF life[w].closed THEN {"error"} ELSE PostOutcomes(target_url)

\* _process_queued_exports up to its first await: the due rows are read and
\* the post of the first one is sent.  A poll that finds nothing changes
\* nothing and the worker sleeps again.
_process_queued_exports(w, order) ==
    /\ wk[w].pc = "sleep"
    /\ life[w].running
    /\ order \in Orders(DueExports)
    /\ order # <<>>
    /\ wk' = [wk EXCEPT ![w] =
                 [pc |-> "post",
                  batch |-> [k \in 1..Len(order) |-> ExportItem(order[k])]]]
    /\ UNCHANGED <<now, coreVars, outboundLedger, exportLedger, life, ob, cbVars,
                   poolVars, restVars>>

\* _deliver_export from the answer of the post on: the row is updated, then
\* the loop posts the next item of the batch or the tick ends
_deliver_export(w, outcome) ==
    /\ wk[w].pc = "post"
    /\ LET item == Head(wk[w].batch)
           rest == Tail(wk[w].batch) IN
        /\ outcome \in ClientOutcomes(w, item.target_url)
        /\ exportLedger' =
               IF outcome = "2xx"
               THEN update_export_status(exportLedger, item.id, "delivered")
               ELSE _handle_delivery_failure(exportLedger, item)
        /\ wk' = [wk EXCEPT ![w] =
                     IF rest = <<>> THEN SleepingWorker
                     ELSE [pc |-> "post", batch |-> rest]]
    /\ UNCHANGED <<now, coreVars, outboundLedger, life, ob, cbVars, poolVars,
                   restVars>>

\* stop(): running is cleared and the client is closed, wherever the loop is
stop(w) ==
    /\ life[w].running
    /\ life' = [life EXCEPT ![w] = [running |-> FALSE, closed |-> TRUE]]
    /\ UNCHANGED <<now, coreVars, outboundLedger, exportLedger, wk, ob, cbVars,
                   poolVars, restVars>>

\* ------------------------------------------------------------------------
\* Outbound federation worker (services/outbound_federation_worker.py) over
\* the table outbound_federation_ledger.

outbound_max_retries == 1
outbound_retry_delay_seconds == 1

\* pc: where the worker is; item: the row _send_message was called with;
\* outcome: how its post ended; raised: the exception that left the last
\* call of _send_message; caught: the exception start() logged for the
\* last tick
IdleOutbound ==
    [pc |-> "sleep", item |-> None, outcome |-> None, raised |-> None,
     caught |-> None, signing_key |-> None, sent |-> None]

\* settings.bridge_private_key: not configured (the default), or a key
BridgePrivateKeys == {None, "kB"}

\* the worker as __init__ leaves it with this bridge_private_key
OutboundWorker(bridge_private_key) ==
    [IdleOutbound EXCEPT !.signing_key = bridge_private_key]

\* _sign_envelope: without a signing key the envelope is returned as it is
_sign_envelope(envelope, signing_key) ==
    IF signing_key = None THEN envelope
    ELSE [envelope EXCEPT !.signature = signing_key]

\* the methods OutboundFederationWorker has; _send_message calls
\* self._handle_send_failure, which is not one of them
OutboundWorkerMethods ==
    {"__init__", "start", "stop", "_process_queued_messages",
     "_sign_envelope", "_send_message", "_generate_jwt"}

\* self.<name>(...) on the worker, self.repository.<name>(...) on the
\* repository: a name the class does not define raises AttributeError
CallOn(methods, name) == IF name \in methods THEN None ELSE "AttributeError"

\* _process_queued_messages: the first statement calls
\* repository.get_queued_outbound_federation_messages
TickOutcome == CallOn(RepositoryMethods, "get_queued_outbound_federation_messages")

\* one pass of the loop of start(): the exception of the tick is caught and
\* logged, and the worker sleeps
_process_queued_messages(w) ==
    /\ ob[w].pc = "sleep"
    /\ ob' = [ob EXCEPT ![w].caught = TickOutcome]
    /\ UNCHANGED <<now, coreVars, outboundLedger, apVars, cbVars, poolVars, restVars>>

\* _send_message up to its await: the envelope of the row is signed and
\* posted to the row's target
_send_message(w, row) ==
    /\ ob[w].pc = "sleep"
    /\ row \in outboundLedger
    /\ ob' = [ob EXCEPT ![w] =
                 [pc |-> "post", item |-> row, outcome |-> None,
                  raised |-> None, caught |-> ob[w].caught,
                  signing_key |-> ob[w].signing_key,
                  sent |-> _sign_envelope(row.raw_envelope, ob[w].signing_key)]]
    /\ UNCHANGED <<now, coreVars, outboundLedger, apVars, cbVars, poolVars, restVars>>

\* _send_message from the answer of the post on.  After a 2xx the try block
\* calls repository.update_outbound_federation_message_status; its
\* AttributeError is caught by "except Exception", like a failed post, and
\* the handler calls self._handle_send_failure, whose AttributeError leaves
\* _send_message.  No statement on the way writes to the table.
_send_message_done(w, outcome) ==
    /\ ob[w].pc = "post"
    /\ LET in_try == IF outcome = "2xx"
                     THEN CallOn(RepositoryMethods,
                                 "update_outbound_federation_message_status")
                     ELSE "HTTPError"
           raised == IF in_try = None THEN None
                     ELSE CallOn(OutboundWorkerMethods, "_handle_send_failure")
       IN ob' = [ob EXCEPT ![w].pc = "sleep", ![w].outcome = outcome,
                           ![w].raised = raised]
    /\ UNCHANGED <<now, coreVars, outboundLedger, apVars, cbVars, poolVars, restVars>>

\* ------------------------------------------------------------------------
\* Circuit breaker of a conductor client (services/conductor.py).  The
\* coroutines that call the client run on one event loop: a step is the code
\* between two awaits.

failure_threshold == 2
recovery_timeout == 1
max_retries == 1

\* the coroutines that use the client at the same time
Callers == {"c1", "c2"}

\* the None of a time that has not been set
Never == -1

\* CircuitBreaker.__init__; opened_at notes when the state last became OPEN
NewBreaker ==
    [state |-> "CLOSED", failure_count |-> 0, last_failure_time |-> Never,
     opened_at |-> Never]

\* pc: idle, await (the operation is with the backend), backoff (the sleep
\* before a retry), done; seen: the breaker state can_execute found;
\* ended_in: the breaker state the end of the call found
IdleCall ==
    [pc |-> "idle", attempt |-> 0, seen |-> None, ended_in |-> None,
     result |-> None]

\* can_execute: the value it returns
can_execute(b) ==
    CASE b.state = "CLOSED" -> TRUE
      [] b.state = "OPEN" ->
            /\ b.last_failure_time # Never
            /\ now - b.last_failure_time > recovery_timeout
      [] OTHER -> TRUE

\* can_execute: the breaker it leaves
after_can_execute(b) ==
    IF b.state = "OPEN" /\ can_execute(b)
    THEN [b EXCEPT !.state = "HALF_OPEN"]
    ELSE b

\* variant: the breaker closes and keeps its failure count
on_success_keep_count(b) == [b EXCEPT !.state = "CLOSED"]

on_success(b) == [b EXCEPT !.failure_count = 0, !.state = "CLOSED"]

on_failure(b) ==
    LET count == b.failure_count + 1 IN
    [b EXCEPT !.failure_count = count,
              !.last_failure_time = now,
              !.state = IF count >= failure_threshold THEN "OPEN" ELSE @,
              !.opened_at = IF count >= failure_threshold /\ b.state # "OPEN"
                            THEN now ELSE @]

\* _execute_with_retry up to its first await: the breaker is asked once;
\* a refused call raises "Circuit breaker is open", an admitted one sends
\* its first attempt to the backend
Execute(c) ==
    /\ calls[c].pc = "idle"
    /\ cb' = after_can_execute(cb)
    /\ calls' = [calls EXCEPT ![c] =
                    IF can_execute(cb)
                    THEN [pc |-> "await", attempt |-> 0, seen |-> cb.state,
                          ended_in |-> None, result |-> None]
                    ELSE [pc |-> "done", attempt |-> 0, seen |-> cb.state,
                          ended_in |-> None, result |-> "CircuitOpen"]]
    /\ UNCHANGED <<now, coreVars, outboundLedger, apVars, ob, poolVars, restVars>>

\* the backend answers an attempt: success closes the breaker; a failure
\* is retried after a sleep, and the failure of the last attempt is the one
\* the breaker is told about
Answer(c, ok) ==
    /\ calls[c].pc = "await"
    /\ IF ok
       THEN /\ cb' = on_success(cb)
            /\ calls' = [calls EXCEPT ![c].pc = "done", ![c].result = "ok",
                                      ![c].ended_in = cb.state]
       ELSE IF calls[c].attempt < max_retries
       THEN /\ cb' = cb
            /\ calls' = [calls EXCEPT ![c].pc = "backoff"]
       ELSE /\ cb' = on_failure(cb)
            /\ calls' = [calls EXCEPT ![c].pc = "done", ![c].result = "error",
                                      ![c].ended_in = cb.state]
    /\ UNCHANGED <<now, coreVars, outboundLedger, apVars, ob, poolVars, restVars>>

\* the sleep before a retry ends and the next attempt goes to the backend
Retry(c) ==
    /\ calls[c].pc = "backoff"
    /\ calls' = [calls EXCEPT ![c].pc = "await", ![c].attempt = @ + 1]
    /\ UNCHANGED <<now, coreVars, outboundLedger, apVars, ob, cb, poolVars, restVars>>

\* the caller has its result or exception; the coroutine is free for the
\* next call
Return(c) ==
    /\ calls[c].pc = "done"
    /\ calls' = [calls EXCEPT ![c] = IdleCall]
    /\ UNCHANGED <<now, coreVars, outboundLedger, apVars, ob, cb, poolVars, restVars>>

\* ------------------------------------------------------------------------
\* Connection pool of conductor clients (services/conductor_pool.py)

\* ConductorConnectionPool.max_retries: the tries of one request
pool_max_retries == 2
\* the selections the pool makes in a run
MaxSelections == 4

\* the indexes of self.clients
Clients == {0, 1, 2}
\* the coroutines that make requests through the pool
PoolCallers == {"p1", "p2"}
PoolOps == {"submit_event", "get_day_proof", "submit_events_batch"}

\* __init__: every client healthy, index 0; last: the client chosen last
NewPool ==
    [health |-> [i \in Clients |-> TRUE], round_robin_index |-> 0,
     last |-> Never]

IdlePoolCall ==
    [pc |-> "idle", op |-> None, client |-> Never, attempt |-> 0,
     outcome |-> None, result |-> None]

Healthy(health) == {i \in Clients : health[i]}

\* healthy_clients[k]: the list is built in the order of self.clients
Nth(S, k) == CHOOSE i \in S : Cardinality({j \in S : j < i}) = k

\* _get_healthy_client, for a pool with a healthy client
Select(pl) ==
    Nth(Healthy(pl.health),
        pl.round_robin_index % Cardinality(Healthy(pl.health)))

\* what a pool method does when _get_healthy_client returns None:
\* get_day_proof logs and returns None, the submit methods raise
\* Exception("No healthy clients available")
NoClientResult(op) ==
    IF op = "get_day_proof" THEN None ELSE "NoHealthyClients"

\* one pass of the for loop of a pool method up to its await: a client is
\* chosen under the lock and the request goes to it; with no healthy
\* client submit_event raises and get_day_proof returns None
Choose(p, op, attempt) ==
    /\ pool.round_robin_index < MaxSelections
    /\ IF Healthy(pool.health) = {}
       THEN /\ pool' = pool
            /\ pcalls' = [pcalls EXCEPT ![p] =
                   [pc |-> "done", op |-> op, client |-> Never,
                    attempt |-> attempt, outcome |-> None,
                    result |-> NoClientResult(op)]]
       ELSE /\ pool' = [pool EXCEPT !.round_robin_index = @ + 1,
                                    !.last = Select(pool)]
            /\ pcalls' = [pcalls EXCEPT ![p] =
                   [pc |-> "await", op |-> op, client |-> Select(pool),
                    attempt |-> attempt, outcome |-> None, result |-> None]]
    /\ UNCHANGED <<now, coreVars, outboundLedger, apVars, ob, cbVars, restVars>>

PoolCall(p, op) ==
    /\ pcalls[p].pc = "idle"
    /\ Choose(p, op, 0)

\* the sleep after a failed try ends and the loop chooses again
PoolRetry(p) ==
    /\ pcalls[p].pc = "sleep"
    /\ Choose(p, pcalls[p].op, pcalls[p].attempt + 1)

\* the client's method ends.  submit_event of a client raises when the
\* request failed, and the pool marks the client unhealthy; get_day_proof
\* of the http and grpc clients catches the failure and returns None, which
\* the pool returns as the result.
ClientAnswer(p, outcome) ==
    /\ pcalls[p].pc = "await"
    /\ LET c == pcalls[p] IN
       IF outcome = "ok"
       THEN /\ pool' = pool
            /\ pcalls' = [pcalls EXCEPT ![p].pc = "done",
                                        ![p].outcome = outcome,
                                        ![p].result = "ok"]
       ELSE IF c.op = "get_day_proof"
       THEN /\ pool' = pool
            /\ pcalls' = [pcalls EXCEPT ![p].pc = "done",
                                        ![p].outcome = outcome,
                                        ![p].result = None]
       ELSE /\ pool' = [pool EXCEPT !.health[c.client] = FALSE]
            /\ pcalls' = [pcalls EXCEPT
                   ![p].outcome = outcome,
                   ![p].pc = IF c.attempt < pool_max_retries - 1
                             THEN "sleep" ELSE "done",
                   ![p].result = IF c.attempt < pool_max_retries - 1
                                 THEN None ELSE "AllClientsFailed"]
    /\ UNCHANGED <<now, coreVars, outboundLedger, apVars, ob, cbVars, restVars>>

\* _check_all_clients_health, for one client: the mark becomes what
\* client.health_check() returned, False if it raised
HealthCheck(i, is_healthy) ==
    /\ pool' = [pool EXCEPT !.health[i] = is_healthy]
    /\ pool' # pool
    /\ UNCHANGED <<now, coreVars, outboundLedger, apVars, ob, cbVars, pcalls, restVars>>

PoolReturn(p) ==
    /\ pcalls[p].pc = "done"
    /\ pcalls' = [pcalls EXCEPT ![p] = IdlePoolCall]
    /\ UNCHANGED <<now, coreVars, outboundLedger, apVars, ob, cbVars, pool, restVars>>

\* ------------------------------------------------------------------------
\* ConductorCache (services/conductor_cache.py).  get and set run under the
\* cache's lock, so each is one step.

\* ConductorCache.max_size and the ttl of an entry
max_size == 2
cache_ttl == 1

CacheKeys == {"day_proof:7", "day_proof:9", "day_proof:11"}

\* _cache: key -> [timestamp, ttl]; _access_times: a dict, kept here as the
\* sequence of its <<key, time>> items in insertion order; recent: the keys
\* of the cache in the order of their last access, the latest last
NewCache == [entries |-> NoRows, access |-> <<>>, recent |-> <<>>]

Without(q, k) == SelectSeq(q, LAMBDA item : item # k)

\* del d[k] on the items of a dict
DictDel(items, k) == SelectSeq(items, LAMBDA item : item[1] # k)

\* d[k] = t on the items of a dict: a key it has keeps its place
DictSet(items, k, t) ==
    IF \E n \in 1..Len(items) : items[n][1] = k
    THEN [n \in 1..Len(items) |->
             IF items[n][1] = k THEN <<k, t>> ELSE items[n]]
    ELSE Append(items, <<k, t>>)

\* min(d.keys(), key=d.get): the first key in dict order with the least time
DictMin(items) ==
    LET n == CHOOSE a \in 1..Len(items) :
                 /\ \A b \in 1..Len(items) : items[a][2] <= items[b][2]
                 /\ \A b \in 1..(a - 1) : items[b][2] > items[a][2]
    IN items[n][1]

Drop(f, k) == [j \in (DOMAIN f) \ {k} |-> f[j]]

Put(f, k, v) == [j \in (DOMAIN f) \cup {k} |-> IF j = k THEN v ELSE f[j]]

\* _evict_oldest
_evict_oldest(c) ==
    IF c.access = <<>> THEN c
    ELSE LET oldest_key == DictMin(c.access) IN
         [entries |-> Drop(c.entries, oldest_key),
          access |-> DictDel(c.access, oldest_key),
          recent |-> Without(c.recent, oldest_key)]

\* ConductorCache.get: a miss changes nothing, an expired entry is deleted,
\* a hit sets the access time of the key
CacheGet(k) ==
    /\ k \in DOMAIN cache.entries
    /\ cache' =
          IF now - cache.entries[k].timestamp > cache.entries[k].ttl
          THEN [entries |-> Drop(cache.entries, k),
                access |-> DictDel(cache.access, k),
                recent |-> Without(cache.recent, k)]
          ELSE [cache EXCEPT !.access = DictSet(@, k, now),
                             !.recent = Append(Without(@, k), k)]
    /\ UNCHANGED <<now, coreVars, outboundLedger, apVars, ob, cbVars, poolVars,
                   authVars, rlVars, dpVars, fpVars, pubVars, sjVars,
                   edgeVars, submitVars>>

\* ConductorCache.set: with max_size entries in the cache one is evicted
\* first, whether or not the key is new
CacheSet(k) ==
    /\ LET c == IF Cardinality(DOMAIN cache.entries) >= max_size
                THEN _evict_oldest(cache) ELSE cache IN
       cache' = [entries |-> Put(c.entries, k,
                                 [timestamp |-> now, ttl |-> cache_ttl]),
                 access |-> DictSet(c.access, k, now),
                 recent |-> Append(Without(c.recent, k), k)]
    /\ cache' # cache
    /\ UNCHANGED <<now, coreVars, outboundLedger, apVars, ob, cbVars, poolVars,
                   authVars, rlVars, dpVars, fpVars, pubVars, sjVars,
                   edgeVars, submitVars>>

\* ------------------------------------------------------------------------
\* JWT authentication (core/jwt_auth.py) with jwt_enforcement_enabled, the
\* JTI cache (db/repository.py remember_jti) and the way the routes use it

\* a bearer token: signed by the configured key with the right issuer and
\* audience or not (good), its jti claim and its exp claim, Never when the
\* token has none
Tokens == [good : BOOLEAN, jti : {"jti-1", None}, exp : {Never, 1}]

\* jwt.decode with verify_signature, verify_aud, verify_iss, verify_exp: an
\* exp claim is checked when the token has one
Decodes(token) == token.good /\ (token.exp = Never \/ token.exp >= now)

\* int(payload.get("exp", 0))
ExpiresAt(token) == IF token.exp = Never THEN 0 ELSE token.exp

\* pc: idle, selected (remember_jti has read the table and not yet
\* committed), done; status: what the request is answered with
IdleAuth == [pc |-> "idle", token |-> None, via |-> None, status |-> None]

Answered(token, via, status) ==
    [pc |-> "done", token |-> token, via |-> via, status |-> status]

\* JWTAuth.__call__ up to the SELECT of remember_jti
JwtCall(p, token) ==
    /\ auth[p].pc = "idle"
    /\ IF ~Decodes(token) \/ token.jti = None
       THEN /\ auth' = [auth EXCEPT ![p] = Answered(token, "__call__", "401")]
            /\ jtiCache' = jtiCache
       ELSE LET rows == PurgeExpired(jtiCache, now) IN
            /\ jtiCache' = rows
            /\ auth' = [auth EXCEPT ![p] =
                  IF JtiPresent(rows, token.jti)
                  THEN Answered(token, "__call__", "401")
                  ELSE [pc |-> "selected", token |-> token, via |-> "__call__",
                        status |-> None]]
    /\ UNCHANGED <<now, req, flags, targetStages, trustStore, envelopeCache,
                   idempotencyKeys, entityRows, outboundLedger, submissions,
                   sess, apVars, ob, cbVars, poolVars, cache, accepted,
                   rlVars, dpVars, fpVars, pubVars, sjVars, edgeVars,
                   submitVars>>

\* the INSERT and the commit of remember_jti: the IntegrityError of a row
\* committed by the other process meanwhile is no JOSEError and leaves
\* __call__ as it is
JwtCommit(p) ==
    /\ auth[p].pc = "selected"
    /\ LET token == auth[p].token IN
       IF JtiPresent(jtiCache, token.jti)
       THEN /\ auth' = [auth EXCEPT ![p] = Answered(token, "__call__", "500")]
            /\ UNCHANGED <<jtiCache, accepted, fpVars, pubVars, sjVars, edgeVars,
                   submitVars>>
       ELSE /\ auth' = [auth EXCEPT ![p] = Answered(token, "__call__", "ok")]
            /\ jtiCache' = jtiCache \cup
                   {JtiRow(token.jti, "stage-A", ExpiresAt(token))}
            /\ accepted' = accepted \cup {token}
    /\ UNCHANGED <<now, req, flags, targetStages, trustStore, envelopeCache,
                   idempotencyKeys, entityRows, outboundLedger, submissions,
                   sess, apVars, ob, cbVars, poolVars, cache, rlVars,
                   dpVars, fpVars, pubVars, sjVars, edgeVars, submitVars>>

\* a route with  jwt_auth_dep: None = Depends(JWTAuth):  create_app
\* overrides the dependency JWTAuth by a function that returns the JWTAuth
\* instance, so the parameter is that instance and __call__ does not run
JwtDependency(p, token) ==
    /\ auth[p].pc = "idle"
    /\ auth' = [auth EXCEPT ![p] = Answered(token, "Depends", "ok")]
    /\ accepted' = accepted \cup {token}
    /\ UNCHANGED <<now, coreVars, outboundLedger, apVars, ob, cbVars, poolVars,
                   cache, rlVars, dpVars, fpVars, pubVars, sjVars, edgeVars,
                   submitVars>>

\* the request is answered and the process takes the next one
JwtNext(p) ==
    /\ auth[p].pc = "done"
    /\ auth' = [auth EXCEPT ![p] = IdleAuth]
    /\ UNCHANGED <<now, coreVars, outboundLedger, apVars, ob, cbVars, poolVars,
                   cache, accepted, rlVars, dpVars, fpVars, pubVars, sjVars,
                   edgeVars, submitVars>>

\* ------------------------------------------------------------------------
\* The rate limiter (core/rate_limiter.py): a fixed-window counter per
\* X-Chorus-Instance-Id, kept in the memory of each bridge process

federation_rate_limits_default_rps == 2
federation_rate_limits_burst == 3
window_size == 1

\* the requests of one sender in one window that the model follows
MaxRequests == 3

Windows == 0..(MaxTime \div window_size)

\* the X-Chorus-Instance-Id values of the requests the model follows
Senders == {"stage-A"}

\* d.get(k, 0) on a dict of counts
CountOf(d, k) == IF k \in DOMAIN d THEN d[k] ELSE 0

\* the clean-up loop of __call__: the windows before the previous one go,
\* and with them the senders that have no window left
CleanUp(reqs, current_window) ==
    LET kept(d) == [w \in {v \in DOMAIN d : ~(v < current_window - 1)} |-> d[w]]
        live == {i \in DOMAIN reqs : DOMAIN kept(reqs[i]) # {}}
    IN [i \in live |-> kept(reqs[i])]

\* self.requests[x_chorus_instance_id][current_window] += 1
Counted(reqs, sender, current_window) ==
    LET mine == IF sender \in DOMAIN reqs THEN reqs[sender] ELSE NoRows
    IN Put(reqs, sender,
           Put(mine, current_window, CountOf(mine, current_window) + 1))

\* the two checks of __call__ on the counted request: neither raises 429
WithinLimits(reqs, sender, current_window) ==
    LET current_count == reqs[sender][current_window]
        total_recent_requests ==
            current_count + CountOf(reqs[sender], current_window - 1)
    IN /\ ~(current_count > federation_rate_limits_default_rps)
       /\ ~(total_recent_requests > federation_rate_limits_burst)

\* one more request of the sender let through in the window; the windows
\* before the previous one are no longer followed
Admit(sender, window) ==
    [s \in Instances |-> [w \in Windows |->
        IF w < window - 1 THEN 0
        ELSE IF s = sender /\ w = window THEN admitted[s][w] + 1
        ELSE admitted[s][w]]]

\* RateLimiter.__call__ of bridge process p for a request of the sender
RateLimit(p, sender) ==
    LET current_window == now \div window_size
        reqs == Counted(CleanUp(requests[p], current_window), sender,
                        current_window)
    IN /\ reqs[sender][current_window] <= MaxRequests
       /\ requests' = [requests EXCEPT ![p] = reqs]
       /\ admitted' = IF WithinLimits(reqs, sender, current_window)
                      THEN Admit(sender, current_window)
                      ELSE admitted
       /\ UNCHANGED <<now, coreVars, outboundLedger, apVars, ob, cbVars,
                      poolVars, cache, authVars, dpVars, fpVars, pubVars,
                   sjVars, edgeVars, submitVars>>

\* a route with  rate_limit: None = Depends(RateLimiter):  create_app
\* overrides the dependency RateLimiter by a function that returns the
\* RateLimiter instance, so the parameter is that instance and __call__
\* does not run
RateLimitDependency(p, sender) ==
    LET current_window == now \div window_size IN
    /\ admitted[sender][current_window] < MaxRequests
    /\ admitted' = Admit(sender, current_window)
    /\ UNCHANGED <<now, coreVars, outboundLedger, apVars, ob, cbVars, poolVars,
                   cache, authVars, requests, dpVars, fpVars, pubVars,
                   sjVars, edgeVars, submitVars>>

\* ------------------------------------------------------------------------
\* BridgeService.get_day_proof (services/bridge.py) over the day_proofs
\* table (db/repository.py upsert_day_proof, get_day_proof)

\* Optional[DayProofResponse]: None, written as a record of the same shape
NoDayProof == [day_number |-> Never, proof |-> "None", source |-> "None"]

\* the proof of day n as the Conductor serves it
ConductorProof(n) == [day_number |-> n, proof |-> "proof", source |-> "remote"]

\* what ConductorClient.get_day_proof(n) returns: the proof, or None after
\* the failure the client has logged
ConductorAnswers(n) == {ConductorProof(n), NoDayProof}

\* the DayProofRecord upsert_day_proof writes for a proof
DayProofRecord(proof, source) == [proof |-> proof.proof, source |-> source]

\* repository.get_day_proof(day_number) on the table
StoredDayProof(rows, day_number) ==
    IF day_number \in DOMAIN rows
    THEN [day_number |-> day_number, proof |-> rows[day_number].proof,
          source |-> rows[day_number].source]
    ELSE NoDayProof

\* pc: idle, fetch (awaiting the Conductor), upsert (the session of
\* upsert_day_proof has read the row and not yet committed), done
IdleDayProof ==
    [pc |-> "idle", day |-> Never, fetched |-> FALSE, proof |-> NoDayProof,
     record |-> None, result |-> NoDayProof, exc |-> None]

\* get_day_proof up to its await: the stored proof is returned, a miss goes
\* to the Conductor
GetDayProof(p, n) ==
    /\ dp[p].pc = "idle"
    /\ LET stored == StoredDayProof(dayProofs, n) IN
       dp' = [dp EXCEPT ![p] =
                IF stored # NoDayProof
                THEN [IdleDayProof EXCEPT !.pc = "done", !.day = n,
                                          !.result = stored]
                ELSE [IdleDayProof EXCEPT !.pc = "fetch", !.day = n]]
    /\ UNCHANGED <<now, coreVars, outboundLedger, apVars, ob, cbVars, poolVars,
                   cache, authVars, rlVars, dayProofs, fpVars, pubVars,
                   sjVars, edgeVars, submitVars>>

\* the Conductor has answered: None is returned, a proof goes to
\* upsert_day_proof, whose session reads the row of the day
ConductorAnswer(p, proof) ==
    /\ dp[p].pc = "fetch"
    /\ proof \in ConductorAnswers(dp[p].day)
    /\ dp' = [dp EXCEPT ![p] =
                IF proof = NoDayProof
                THEN [@ EXCEPT !.pc = "done", !.fetched = TRUE]
                ELSE [@ EXCEPT !.pc = "upsert", !.fetched = TRUE,
                               !.proof = proof,
                               !.record = IF proof.day_number \in DOMAIN dayProofs
                                          THEN "found" ELSE None]]
    /\ UNCHANGED <<now, coreVars, outboundLedger, apVars, ob, cbVars, poolVars,
                   cache, authVars, rlVars, dayProofs, fpVars, pubVars,
                   sjVars, edgeVars, submitVars>>

\* the commit of upsert_day_proof and the read that follows it: the INSERT
\* of a day another process has committed meanwhile raises IntegrityError
UpsertCommit(p) ==
    /\ dp[p].pc = "upsert"
    /\ LET proof == dp[p].proof IN
       IF dp[p].record = None /\ proof.day_number \in DOMAIN dayProofs
       THEN /\ dp' = [dp EXCEPT ![p].pc = "done",
                                ![p].exc = "IntegrityError"]
            /\ dayProofs' = dayProofs
       ELSE LET rows == Put(dayProofs, proof.day_number,
                            DayProofRecord(proof, "conductor")) IN
            /\ dayProofs' = rows
            /\ dp' = [dp EXCEPT ![p].pc = "done",
                                ![p].result = StoredDayProof(rows, dp[p].day)]
    /\ UNCHANGED <<now, coreVars, outboundLedger, apVars, ob, cbVars, poolVars,
                   cache, authVars, rlVars, fpVars, pubVars, sjVars,
                   edgeVars, submitVars>>

\* the call has returned and the process takes the next one
DayProofReturn(p) ==
    /\ dp[p].pc = "done"
    /\ dp' = [dp EXCEPT ![p] = IdleDayProof]
    /\ UNCHANGED <<now, coreVars, outboundLedger, apVars, ob, cbVars, poolVars,
                   cache, authVars, rlVars, dayProofs, fpVars, pubVars,
                   sjVars, edgeVars, submitVars>>

\* ------------------------------------------------------------------------
\* envelope_fingerprint (core/security.py) on the bytes of its fields

MaxLen == 1

\* the values of a byte the model follows
Bytes == {0, 1}

ByteStrings == UNION {[1..n -> Bytes] : n \in 0..MaxLen}

\* (sender_instance.encode("utf-8"), message_type.encode("utf-8"),
\* message_data) of an envelope
FieldTriples == [1..3 -> ByteStrings]

\* n.to_bytes(length, "big")
to_bytes(n, length) ==
    [i \in 1..length |-> (n \div (256 ^ (length - i))) % 256]

RECURSIVE Concatenated(_)
\* the chunks one after the other, with no length before them
Concatenated(fields) ==
    IF fields = <<>> THEN <<>>
    ELSE Head(fields) \o Concatenated(Tail(fields))

RECURSIVE Hashed(_)
\* what the loop of envelope_fingerprint feeds the hasher: for each chunk
\* its length in 4 bytes, then the chunk
Hashed(fields) ==
    IF fields = <<>> THEN <<>>
    ELSE to_bytes(Len(Head(fields)), 4) \o Head(fields) \o Hashed(Tail(fields))

\* blake3(...).hexdigest(), taken as collision-free: one digest per input
hexdigest(input) == <<"blake3", input>>

envelope_fingerprint_of(fields) == hexdigest(Hashed(fields))

NoFingerprints == [E1 |-> <<>>, E2 |-> <<>>, f1 |-> <<>>, f2 |-> <<>>]

\* process_federation_envelope computes the fingerprint of two envelopes,
\* once
Fingerprints(E1, E2) ==
    /\ prints = NoFingerprints
    /\ prints' = [E1 |-> E1, E2 |-> E2,
                  f1 |-> envelope_fingerprint_of(E1),
                  f2 |-> envelope_fingerprint_of(E2)]
    /\ UNCHANGED <<now, coreVars, outboundLedger, apVars, ob, cbVars, poolVars,
                   cache, authVars, rlVars, dpVars, pubVars, sjVars,
                   edgeVars, submitVars>>

\* ------------------------------------------------------------------------
\* ActivityPubTranslator.derive_publish_timestamp (services/activitypub.py)

\* the seconds of a day (86_400 in the code), scaled
SecondsPerDay == 3

\* settings.export_genesis_timestamp, scaled
genesis_timestamp == 1

PostIds == {"post-a", "post-b"}

DayNumbers == 0..2

\* rng.randint(0, 86_400): both ends are included
Offsets == 0..SecondsPerDay

\* rng.seed(f"{post_id}:{day_number}"); rng.randint(0, 86_400): the draw is a
\* function of the seed, so a seed that was used before gives the offset it
\* gave before
Draws(post_id, day_number) ==
    IF <<post_id, day_number>> \in DOMAIN published
    THEN {published[<<post_id, day_number>>].offset}
    ELSE Offsets

derive_publish_timestamp(day_number, offset) ==
    genesis_timestamp + (day_number * SecondsPerDay) + offset

\* build_note for a post of the day
BuildNote(post_id, day_number, offset) ==
    /\ offset \in Draws(post_id, day_number)
    /\ published' = Put(published, <<post_id, day_number>>,
                        [offset |-> offset,
                         ts |-> derive_publish_timestamp(day_number, offset)])
    /\ UNCHANGED <<now, coreVars, outboundLedger, apVars, ob, cbVars, poolVars,
                   cache, authVars, rlVars, dpVars, fpVars, sjVars, edgeVars,
                   submitVars>>


\* ------------------------------------------------------------------------
\* Signed JSON requests (services/bridge.py, queue_activitypub_export and
\* record_moderation_event)
\* ------------------------------------------------------------------------

\* a request: the hex protobuf parses or not, the detached signature is
\* named by the key that made it ("" is a signature of no known key)
SignedRequests ==
    [wellFormed : BOOLEAN, creation_day : Days, signature : Keys \cup {""}]

IdleSigned == [pc |-> "idle"]

\* the columns of class ExportLedger
ExportLedgerColumns ==
    {"id", "object_hash", "ap_type", "target_url", "status", "last_attempt_at",
     "attempts", "published_ts", "retry_at", "raw_payload"}

\* the keywords enqueue_export passes to ExportLedger(...)
EnqueueExportKeywords ==
    {"id", "object_hash", "ap_type", "target_url", "status", "last_attempt_at",
     "attempts", "raw_payload", "created_at", "published_ts", "retry_at"}

\* BridgeRepository.enqueue_export: the declarative constructor refuses a
\* keyword that is not a column
enqueue_export ==
    IF CallOn(RepositoryMethods, "enqueue_export") # None
    THEN "AttributeError"
    ELSE IF EnqueueExportKeywords \subseteq ExportLedgerColumns
    THEN None
    ELSE "TypeError"

\* self._repository.record_moderation_event(...)
record_moderation_event_row == CallOn(RepositoryMethods, "record_moderation_event")

\* the steps both handlers share: parse, _fetch_verify_key, verify_signature,
\* the repository write, then await self._conductor.submit_event(...)
SignedOutcome(p, stage_instance, request, write, submit) ==
    IF ~request.wellFormed THEN "DecodeError"
    ELSE IF trustStore[p][stage_instance] = None THEN "PermissionError"
    ELSE IF ~verify_signature(request.signature, trustStore[p][stage_instance])
    THEN "SignatureVerificationError"
    ELSE IF write # None THEN write
    ELSE IF submit # "receipt" THEN "ConductorError"
    ELSE "ok"

\* the row is written once the repository call returns
RowWritten(outcome) == outcome \in {"ConductorError", "ok"}

SignedHandler(r, p, kind, event_type, stage_instance, request, write, submit) ==
    LET outcome == SignedOutcome(p, stage_instance, request, write, submit) IN
    /\ signedCalls[r].pc = "idle"
    /\ signedCalls' = [signedCalls EXCEPT ![r] =
           [pc |-> "done", kind |-> kind, proc |-> p,
            stage_instance |-> stage_instance, request |-> request,
            outcome |-> outcome]]
    /\ signedRows' = IF RowWritten(outcome)
                     THEN signedRows \cup {[call |-> r, kind |-> kind]}
                     ELSE signedRows
    /\ signedEvents' = IF outcome = "ok"
                       THEN signedEvents \cup
                            {[call |-> r, event_type |-> event_type,
                              epoch |-> request.creation_day]}
                       ELSE signedEvents
    /\ UNCHANGED <<now, coreVars, outboundLedger, apVars, ob, cbVars, poolVars,
                   cache, authVars, rlVars, dpVars, fpVars, pubVars,
                   edgeVars, submitVars>>

queue_activitypub_export(r, p, stage_instance, request, submit) ==
    SignedHandler(r, p, "queue_activitypub_export", "activitypub_export",
                  stage_instance, request, enqueue_export, submit)

record_moderation_event(r, p, stage_instance, request, submit) ==
    SignedHandler(r, p, "record_moderation_event", "moderation_event",
                  stage_instance, request, record_moderation_event_row, submit)


\* ------------------------------------------------------------------------
\* The edge of the protected routes (api/v1/routes.py): the dependencies
\* rate_limit = Depends(RateLimiter) and jwt_auth_dep = Depends(JWTAuth),
\* declared and resolved in this order, in a deployment that enforces JWT
\* ------------------------------------------------------------------------

\* the bearer tokens of the requests the model follows: one jti, signed by
\* the configured key or forged
EdgeTokens == {token \in Tokens : token.jti = "jti-1" /\ token.exp = 1}

NoEdgeRequest == [sender |-> None, token |-> None, via |-> None, status |-> None]

\* JWTAuth.__call__ lets the token through: it decodes, has a jti, and the
\* jti is not in the JTI cache
Authenticates(token) ==
    /\ Decodes(token)
    /\ token.jti # None
    /\ ~JtiPresent(PurgeExpired(jtiCache, now), token.jti)

\* the dependencies run as their __call__, in the order of the parameter
\* list: the limiter counts the request under the X-Chorus-Instance-Id it
\* carries and may answer 429; only then JWTAuth looks at the token
EdgeCall(p, sender, token) ==
    LET current_window == now \div window_size
        reqs == Counted(CleanUp(requests[p], current_window), sender,
                        current_window)
        limited == ~WithinLimits(reqs, sender, current_window)
        status == IF limited THEN "429"
                  ELSE IF Authenticates(token) THEN "ok" ELSE "401"
        mine == CleanUp(authentic[p], current_window)
    IN /\ reqs[sender][current_window] <= MaxRequests
       /\ requests' = [requests EXCEPT ![p] = reqs]
       /\ jtiCache' = IF limited \/ ~Decodes(token) \/ token.jti = None
                      THEN jtiCache
                      ELSE IF status = "ok"
                      THEN PurgeExpired(jtiCache, now) \cup
                               {JtiRow(token.jti, sender, ExpiresAt(token))}
                      ELSE PurgeExpired(jtiCache, now)
       /\ authentic' = [authentic EXCEPT ![p] =
                           IF Authenticates(token)
                           THEN Counted(mine, sender, current_window)
                           ELSE mine]
       /\ edge' = [edge EXCEPT ![p] =
                      [sender |-> sender, token |-> token, via |-> "__call__",
                       status |-> status]]
       /\ UNCHANGED <<now, req, flags, targetStages, trustStore, envelopeCache,
                      idempotencyKeys, entityRows, outboundLedger, submissions,
                      sess, apVars, ob, cbVars, poolVars, cache, authVars,
                      admitted, dpVars, fpVars, pubVars, sjVars, submitVars>>

\* the routes of create_app: both dependencies are overridden by functions
\* that return the instance, neither __call__ runs and the request reaches
\* the handler
EdgeDependency(p, sender, token) ==
    /\ edge' = [edge EXCEPT ![p] =
                   [sender |-> sender, token |-> token, via |-> "Depends",
                    status |-> "ok"]]
    /\ edge'[p] # edge[p]
    /\ UNCHANGED <<now, coreVars, outboundLedger, apVars, ob, cbVars, poolVars,
                   cache, authVars, rlVars, dpVars, fpVars, pubVars, sjVars,
                   authentic, submitVars>>


\* ------------------------------------------------------------------------
\* submit_event of a conductor client (services/conductor.py): the event of
\* an accepted envelope on its way to the Conductor backend through
\* _execute_with_retry
\* ------------------------------------------------------------------------

\* how an attempt ends for the client: with the receipt; with an error raised
\* before the backend has the event (connection refused); or with a timeout
\* or a lost response, after the backend has received the event
TransportOutcomes == {"receipt", "refused", "timeout"}

BackendReceives(outcome) == outcome \in {"receipt", "timeout"}

IdleSubmit == [pc |-> "idle", attempt |-> 0, result |-> None]

\* submit_event up to the first await of _execute_with_retry
SubmitEvent(c) ==
    /\ submits[c].pc = "idle"
    /\ cb' = after_can_execute(cb)
    /\ submits' = [submits EXCEPT ![c] =
                      IF can_execute(cb)
                      THEN [pc |-> "await", attempt |-> 0, result |-> None]
                      ELSE [pc |-> "done", attempt |-> 0,
                            result |-> "CircuitOpen"]]
    /\ UNCHANGED <<now, coreVars, outboundLedger, apVars, ob, calls, poolVars,
                   cache, authVars, rlVars, dpVars, fpVars, pubVars, sjVars,
                   edgeVars,
                   received>>

\* an attempt ends: the receipt is returned; an exception is followed by the
\* sleep and the next attempt, whatever the exception was, and after the
\* last attempt it is raised
SubmitAnswer(c, outcome) ==
    /\ submits[c].pc = "await"
    /\ received' = [received EXCEPT ![c] =
                       IF BackendReceives(outcome) THEN @ + 1 ELSE @]
    /\ IF outcome = "receipt"
       THEN /\ cb' = on_success(cb)
            /\ submits' = [submits EXCEPT ![c].pc = "done",
                                          ![c].result = "receipt"]
       ELSE IF submits[c].attempt < max_retries
       THEN /\ cb' = cb
            /\ submits' = [submits EXCEPT ![c].pc = "backoff"]
       ELSE /\ cb' = on_failure(cb)
            /\ submits' = [submits EXCEPT ![c].pc = "done",
                                          ![c].result = "error"]
    /\ UNCHANGED <<now, coreVars, outboundLedger, apVars, ob, calls, poolVars,
                   cache, authVars, rlVars, dpVars, fpVars, pubVars, sjVars,
                   edgeVars>>

\* the sleep ends and operation_func is awaited again: the same event is
\* sent once more
SubmitRetry(c) ==
    /\ submits[c].pc = "backoff"
    /\ submits' = [submits EXCEPT ![c].pc = "await", ![c].attempt = @ + 1]
    /\ UNCHANGED <<now, coreVars, outboundLedger, apVars, ob, calls, poolVars,
                   cache, authVars, rlVars, dpVars, fpVars, pubVars, sjVars,
                   edgeVars,
                   cb, received>>

\* the state the stand-alone components are constructed in
InitRest ==
    /\ cache = NewCache
    /\ auth = [p \in Procs |-> IdleAuth]
    /\ accepted = {}
    /\ requests = [p \in Procs |-> NoRows]
    /\ admitted = [s \in Instances |-> [w \in Windows |-> 0]]
    /\ dayProofs = NoRows
    /\ dp = [p \in Procs |-> IdleDayProof]
    /\ prints = NoFingerprints
    /\ published = NoRows
    /\ signedCalls = [r \in Requests |-> IdleSigned]
    /\ signedRows = {}
    /\ signedEvents = {}
    /\ edge = [p \in Procs |-> NoEdgeRequest]
    /\ authentic = [p \in Procs |-> NoRows]
    /\ submits = [c \in Callers |-> IdleSubmit]
    /\ received = [c \in Callers |-> 0]

\* ------------------------------------------------------------------------
\* Specifications
\* ------------------------------------------------------------------------

\* the trust store file of the deployment: stage-A is trusted, stage-Z is not
InitialKeys == [i \in Instances |-> IF i = "stage-A" THEN "kA" ELSE None]

Init ==
    /\ now = 0
    /\ req = [r \in Requests |-> IdleRequest]
    /\ flags \in {DefaultFlags, AllEnabled, AllDisabled}
    /\ targetStages \in {{}, Targets}
    /\ trustStore = [p \in Procs |-> InitialKeys]
    /\ envelopeCache = {}
    /\ idempotencyKeys = {}
    /\ entityRows = {}
    /\ outboundLedger = {}
    /\ submissions = {}
    /\ jtiCache = {}
    /\ sess = [p \in Procs |-> IdleSession]
    /\ exportLedger = NoRows
    /\ wk = [w \in Procs |-> SleepingWorker]
    /\ life = [w \in Procs |-> StartedWorker]
    /\ ob = [w \in Procs |-> IdleOutbound]
    /\ cb = NewBreaker
    /\ calls = [c \in Callers |-> IdleCall]
    /\ pool = NewPool
    /\ pcalls = [p \in PoolCallers |-> IdlePoolCall]
    /\ InitRest

\* Spec: two calls over one database, with the clock running.  The first,
\* "r1", arrives at bridge-1 with the header X-Chorus-Instance-Id: stage-A;
\* the later one, "r2", at either bridge process with either instance id.
\* The envelopes come from the trusted stage-A and are correctly signed: two
\* posts with the same post_id and different days, a join request that
\* confirms stage-A's key and one that replaces it, and a blacklist update.
PairEnvelopes ==
    {env \in Envelopes :
        /\ env.sender_instance = "stage-A"
        /\ env.signature = "kA"
        /\ env.message_type \in {"PostAnnouncement", "InstanceJoinRequest", "BlacklistUpdate"}
        /\ env.message_data.wellFormed
        /\ env.message_data.subject = "x"
        /\ (env.message_data.day = 7 <=> env.message_data.aux = "a")
        /\ (env.message_type = "BlacklistUpdate" => env.message_data.aux = "a")}

\* <<Idempotency-Key, X-Chorus-Instance-Id>> of the later call; without a
\* key the pipeline does not read the instance id
PairHeaders == {<<None, "stage-A">>, <<"abc-123", "stage-A">>, <<"abc-123", "stage-Z">>}

Next ==
    \/ \E env \in PairEnvelopes, key \in IdempotencyKeys :
          Receive("r1", "bridge-1", env, key, "stage-A")
    \/ \E p \in Procs, env \in PairEnvelopes, h \in PairHeaders :
          req["r1"].pc # "idle" /\ Receive("r2", p, env, h[1], h[2])
    \/ \E r \in Requests : EnvCommit(r)
    \/ \E r \in Requests : IdemCommit(r)
    \/ \E r \in Requests, outcome \in SubmitOutcomes : Submit(r, outcome)
    \/ \E r \in Requests : Dispatch(r)
    \/ Tick

\* the settings as BridgeSettings defaults them, with or without targets
InitDefault == Init /\ flags = DefaultFlags

Spec == InitDefault /\ [][Next]_vars

\* SpecWide: one call on one process, with every envelope a sender can put on
\* the wire, both headers, and every configuration of Init
NextWide ==
    \/ \E env \in Envelopes, key \in IdempotencyKeys, stage \in Instances :
          Receive("r1", "bridge-1", env, key, stage)
    \/ EnvCommit("r1")
    \/ IdemCommit("r1")
    \/ \E outcome \in SubmitOutcomes : Submit("r1", outcome)
    \/ Dispatch("r1")

SpecWide == Init /\ [][NextWide]_vars

\* SpecRepo: two bridge processes call the remember_* methods of one database
NextRepo ==
    \/ \E s \in Procs, op \in DOMAIN RepoCalls :
          \E arg \in RepoCalls[op] : RepoCall(s, op, arg)
    \/ \E s \in Procs : RepoCommit(s)
    \/ Tick

InitRepo == InitDefault /\ targetStages = {}

SpecRepo == InitRepo /\ [][NextRepo]_vars

\* ------------------------------------------------------------------------
\* Properties
\* ------------------------------------------------------------------------

\* what call r has caused outside the replay and idempotency caches
SubmissionsOf(r) == {e \in submissions : e.req = r}

RowsOf(r) == {row \in entityRows : row.req = r}

LedgerOf(r) == {row \in outboundLedger : row.id[1] = r}

NoSideEffects(r) == SubmissionsOf(r) = {} /\ RowsOf(r) = {} /\ LedgerOf(r) = {}

\* the Conductor submissions made for an envelope
SubmissionsFor(subs, env) ==
    {e \in subs : /\ e.sender_instance = env.sender_instance
                  /\ e.message_type = env.message_type
                  /\ e.payload = env.message_data}

\* the signature of env verifies under the key the trust store keys holds
\* for its sender
VerifiesUnder(keys, env) ==
    /\ keys[env.sender_instance] # None
    /\ verify_signature(env.signature, keys[env.sender_instance])

TrustUnchanged == trustStore = [p \in Procs |-> InitialKeys]

\* the step is the arrival of call r
ReceivedNow(r) == req[r].pc = "idle" /\ req'[r].pc # "idle"

\* C1 (signature gate): a call whose envelope comes from a sender the trust
\* store does not know, or whose signature does not verify under the sender's
\* key, causes no federated-entity row, no Conductor submission, no outbound
\* ledger row and no trust store change.
C1_SignatureGate ==
    \A r \in Requests :
        (req[r].pc # "idle" /\ ~VerifiesUnder(InitialKeys, req[r].envelope))
        => NoSideEffects(r) /\ TrustUnchanged

\* a call with a known sender and a bad signature has been answered
C1_Witness ==
    \E r \in Requests :
        /\ req[r].pc = "done"
        /\ InitialKeys[req[r].envelope.sender_instance] # None
        /\ ~VerifiesUnder(InitialKeys, req[r].envelope)
        /\ req[r].envelope.message_data.wellFormed
        /\ req[r].envelope.message_type = "PostAnnouncement"

KeyOf(op, arg) ==
    CASE op = "remember_envelope" -> Fingerprint(arg)
      [] op = "remember_idempotency_key" -> arg
      [] OTHER -> arg[1]

\* C3 (atomic insert-or-reject): of two calls of remember_envelope,
\* remember_idempotency_key or remember_jti for the same primary key, made by
\* two processes within the same second, exactly one returns True and the
\* other returns False.
C3_AtomicInsertOrReject ==
    \A s1, s2 \in Procs :
        (/\ s1 # s2
         /\ sess[s1].state = "returned" /\ sess[s2].state = "returned"
         /\ sess[s1].op = sess[s2].op
         /\ KeyOf(sess[s1].op, sess[s1].arg) = KeyOf(sess[s2].op, sess[s2].arg)
         /\ sess[s1].t = sess[s2].t)
        => {sess[s1].result, sess[s2].result} = {"True", "False"}

C5_AuthFailuresAre403 ==
    \A r \in Requests :
        (req[r].pc = "done" /\ ~VerifiesUnder(InitialKeys, req[r].envelope))
        => /\ HttpStatus(req[r].exc) = 403
           /\ envelopeCache = {} /\ idempotencyKeys = {}
           /\ NoSideEffects(r)

\* C6 (idempotency key): when a call reaches the idempotency step with an
\* Idempotency-Key whose row for the same stage_instance is in the table and
\* not yet expired, it fails with DuplicateIdempotencyKeyError (409), and the
\* step makes no Conductor submission, runs no handler and writes no outbound
\* ledger row.
C6_IdempotencyKey ==
    [][\A r \in Requests :
          (/\ req[r].pc = "env_commit"
           /\ req'[r].pc # "env_commit"
           /\ req'[r].remembered
           /\ req[r].idempotency_key # None
           /\ \E row \in idempotencyKeys :
                 /\ row.instance_id = req[r].stage_instance
                 /\ row.key = req[r].idempotency_key
                 /\ now <= row.expires_at)
          => /\ req'[r].pc = "done"
             /\ req'[r].exc = "DuplicateIdempotencyKeyError"
             /\ HttpStatus(req'[r].exc) = 409
             /\ submissions' = submissions
             /\ entityRows' = entityRows
             /\ outboundLedger' = outboundLedger
             /\ trustStore' = trustStore]_vars

\* a call with a new envelope and a key another call has remembered was
\* rejected, having caused nothing
C6_Witness ==
    \E r, o \in Requests :
        /\ o # r
        /\ req[r].pc = "done" /\ req[r].exc = "DuplicateIdempotencyKeyError"
        /\ req[r].remembered
        /\ req[r].envelope # req[o].envelope
        /\ req[o].idempotency_key = req[r].idempotency_key
        /\ req[o].stage_instance = req[r].stage_instance
        /\ NoSideEffects(r)

\* C7 (epoch derivation): a verified, non-duplicate envelope of any of the
\* ten message types, with decodable message_data, is submitted to the
\* Conductor with epoch equal to the day field of its inner message.
C7_EpochIsDayField ==
    \A r \in Requests :
        (/\ req[r].pc = "done"
         /\ req[r].remembered
         /\ req[r].exc \notin {"DuplicateIdempotencyKeyError", "IntegrityError"}
         /\ req[r].envelope.message_type \in MessageTypes
         /\ req[r].envelope.message_data.wellFormed)
        => \E e \in SubmissionsOf(r) : e.epoch = req[r].envelope.message_data.day

\* no day can be extracted: the bytes do not decode, or the message_type
\* names no message with a day field
NoDayField(env) == ~env.message_data.wellFormed \/ ~HasDayField(env.message_type)

Disabled(mtype) == mtype \in FlaggedTypes /\ ~flags[FlagOf[mtype]]

\* the Conductor call of r did not fail
ConductorOk(r) == \A e \in SubmissionsOf(r) : e.outcome = "receipt"

\* receipt and fingerprint returned, and nothing dispatched
ReceiptOnly(r) ==
    /\ req[r].exc = None /\ HttpStatus(req[r].exc) = 202
    /\ \E e \in SubmissionsOf(r) : e.outcome = "receipt"
    /\ RowsOf(r) = {} /\ LedgerOf(r) = {} /\ TrustUnchanged

Dispatched(r) ==
    \/ RowsOf(r) # {}
    \/ LedgerOf(r) # {}
    \/ trustStore[req[r].proc] # InitialKeys

\* C10 (strict step order): a federated-entity row, trust store change or
\* outbound ledger row caused by a call exists only after the envelope passed
\* verification, was newly remembered and the Conductor returned a receipt;
\* when the Conductor submission failed, none exists.
C10_StrictStepOrder ==
    \A r \in Requests :
        req[r].pc # "idle"
        => /\ Dispatched(r)
              => /\ req[r].verified /\ req[r].remembered
                 /\ \E e \in SubmissionsOf(r) : e.outcome = "receipt"
           /\ ~ConductorOk(r) => ~Dispatched(r)

\* a call carrying an Idempotency-Key has stored a post or changed the trust
\* store
C10_Witness ==
    \E r \in Requests :
        /\ req[r].pc = "done"
        /\ Dispatched(r)
        /\ req[r].envelope.message_type \in {"PostAnnouncement", "InstanceJoinRequest"}
        /\ req[r].idempotency_key # None

\* the message types whose handler ends with the fan-out loop
FanOutTypes == (DOMAIN SaveOf) \cup {"DayProof", "InstanceJoinRequest"}

\* the targets for which the outbound ledger holds a row of call r
LedgerTargets(r) == {row.target_instance_url : row \in LedgerOf(r)}

\* C11 (fan-out): for a call that passed verification and the replay check,
\* got the Conductor receipt and has an enabled handler with a fan-out loop,
\* the outbound ledger holds exactly one row per entry of
\* federation_target_stages, each queued with attempts 0 (none when no
\* target is configured).
C11_FanOutPerTarget ==
    \A r \in Requests :
        (/\ req[r].pc = "done"
         /\ \E e \in SubmissionsOf(r) : e.outcome = "receipt"
         /\ req[r].envelope.message_type \in FanOutTypes \cap MessageHandlers(flags))
        => /\ LedgerTargets(r) = targetStages
           /\ Cardinality(LedgerOf(r)) = Cardinality(targetStages)
           /\ \A row \in LedgerOf(r) : row.status = "queued" /\ row.attempts = 0

InitExport ==
    /\ now = 0
    /\ req = [r \in Requests |-> IdleRequest]
    /\ flags = DefaultFlags
    /\ targetStages = {}
    /\ trustStore = [p \in Procs |-> InitialKeys]
    /\ envelopeCache = {}
    /\ idempotencyKeys = {}
    /\ entityRows = {}
    /\ outboundLedger = {}
    /\ submissions = {}
    /\ jtiCache = {}
    /\ sess = [p \in Procs |-> IdleSession]
    /\ exportLedger \in [ExportIds -> {ExportRow(u, 0) : u \in ExportUrls}]
    /\ wk = [w \in Procs |-> SleepingWorker]
    /\ life = [w \in Procs |-> StartedWorker]
    /\ ob = [w \in Procs |-> IdleOutbound]
    /\ cb = NewBreaker
    /\ calls = [c \in Callers |-> IdleCall]
    /\ pool = NewPool
    /\ pcalls = [p \in PoolCallers |-> IdlePoolCall]
    /\ InitRest

NextExport ==
    \/ \E w \in Procs, order \in Orders(DueExports) :
           _process_queued_exports(w, order)
    \/ \E w \in Procs, outcome \in {"2xx", "error"} :
           _deliver_export(w, outcome)
    \/ Tick

SpecExport == InitExport /\ [][NextExport]_vars

GivenOutboundRows ==
    LET q == [envelope |-> CHOOSE env \in PairEnvelopes :
                              env.message_type = "PostAnnouncement"] IN
    {[OutboundRow(r, q, target) EXCEPT !.retry_at = 0, !.created_at = 0] :
        r \in Requests, target \in Targets}

InitOutbound ==
    /\ now = 0
    /\ req = [r \in Requests |-> IdleRequest]
    /\ flags = DefaultFlags
    /\ targetStages = Targets
    /\ trustStore = [p \in Procs |-> InitialKeys]
    /\ envelopeCache = {}
    /\ idempotencyKeys = {}
    /\ entityRows = {}
    /\ outboundLedger \in (SUBSET GivenOutboundRows) \ {{}}
    /\ submissions = {}
    /\ jtiCache = {}
    /\ sess = [p \in Procs |-> IdleSession]
    /\ exportLedger = NoRows
    /\ wk = [w \in Procs |-> SleepingWorker]
    /\ life = [w \in Procs |-> StartedWorker]
    /\ ob \in [Procs -> {OutboundWorker(k) : k \in BridgePrivateKeys}]
    /\ cb = NewBreaker
    /\ calls = [c \in Callers |-> IdleCall]
    /\ pool = NewPool
    /\ pcalls = [p \in PoolCallers |-> IdlePoolCall]
    /\ InitRest

NextOutbound ==
    \/ \E w \in Procs : _process_queued_messages(w)
    \/ \E w \in Procs, row \in outboundLedger : _send_message(w, row)
    \/ \E w \in Procs, outcome \in {"2xx", "error"} :
           _send_message_done(w, outcome)
    \/ Tick

SpecOutbound == InitOutbound /\ [][NextOutbound]_vars

\* the row of the outbound ledger with this id, after the step
RowAfter(id) == CHOOSE row \in outboundLedger' : row.id = id

\* a step in which an attempt of worker w ends in failure
FailedAttempt(w) ==
    ob[w].pc = "post" /\ ob'[w].pc = "sleep" /\ ob'[w].outcome = "error"

InFlight(j) == {w \in Procs : wk[w].pc = "post" /\ Head(wk[w].batch).id = j}

OutboundRowOf(id) == CHOOSE row \in outboundLedger : row.id = id

InitBreaker == InitDefault /\ targetStages = {}

NextBreaker ==
    \/ \E c \in Callers : Execute(c)
    \/ \E c \in Callers, ok \in BOOLEAN : Answer(c, ok)
    \/ \E c \in Callers : Retry(c)
    \/ \E c \in Callers : Return(c)
    \/ Tick

SpecBreaker == InitBreaker /\ [][NextBreaker]_vars

\* a step in which call c is let through to the backend
Admitted(c) == calls[c].pc = "idle" /\ calls'[c].pc = "await"

\* C17 (as stated): once the breaker has opened, every following call is
\* refused without contacting the backend until recovery_timeout has
\* elapsed since it opened, whatever the interleaving of the calls.
C17_OpenRejectsUntilTimeout ==
    [][\A c \in Callers :
          (Admitted(c) /\ cb.opened_at # Never)
              => now - cb.opened_at > recovery_timeout]_vars

\* the calls that were let through by an OPEN or HALF_OPEN breaker and whose
\* outcome is not known yet
Trials ==
    {c \in Callers :
        /\ calls[c].pc \in {"await", "backoff"}
        /\ calls[c].seen \in {"OPEN", "HALF_OPEN"}}

\* C18 (as stated): after recovery_timeout the breaker lets exactly one
\* trial call through; a call arriving while the trial is unresolved is
\* refused and does not contact the backend.
C18_OneTrialCall == Cardinality(Trials) <= 1

\* a step in which call c ends while the breaker is HALF_OPEN
EndsInHalfOpen(c) ==
    calls[c].pc = "await" /\ calls'[c].pc = "done" /\ cb.state = "HALF_OPEN"

\* C19: a call that succeeds while the breaker is HALF_OPEN leaves it CLOSED
\* with failure_count 0; a call that fails while it is HALF_OPEN leaves it
\* OPEN with last_failure_time set to the time of that failure.
C19_TrialOutcome ==
    [][\A c \in Callers : EndsInHalfOpen(c) =>
          IF calls'[c].result = "ok"
          THEN cb'.state = "CLOSED" /\ cb'.failure_count = 0
          ELSE cb'.state = "OPEN" /\ cb'.last_failure_time = now]_vars

\* after the recovery timeout a call has failed while the breaker was
\* HALF_OPEN, and the breaker is OPEN again with the timer at that failure
C19_Witness ==
    \E c \in Callers :
        /\ calls[c].pc = "done"
        /\ calls[c].ended_in = "HALF_OPEN"
        /\ calls[c].result = "error"
        /\ cb.state = "OPEN"
        /\ cb.last_failure_time = now
        /\ now > recovery_timeout

\* SpecPool: two coroutines making requests through a pool of three
\* clients, with the health checks of the background task
InitPool == InitDefault /\ targetStages = Targets

NextPool ==
    \/ \E p \in PoolCallers, op \in PoolOps : PoolCall(p, op)
    \/ \E p \in PoolCallers : PoolRetry(p)
    \/ \E p \in PoolCallers, outcome \in {"ok", "fail"} : ClientAnswer(p, outcome)
    \/ \E i \in Clients, is_healthy \in BOOLEAN : HealthCheck(i, is_healthy)
    \/ \E p \in PoolCallers : PoolReturn(p)

SpecPool == InitPool /\ [][NextPool]_vars

\* round-robin: the healthy client that follows the one chosen last, in the
\* cyclic order of the clients
NextHealthy(last, health) ==
    LET H == Healthy(health)
        after == {i \in H : i > last}
        Min(S) == CHOOSE i \in S : \A j \in S : i <= j
    IN IF after # {} THEN Min(after) ELSE Min(H)

\* a step in which the pool sends a request of p to a client
Sent(p) == pcalls[p].pc \in {"idle", "sleep"} /\ pcalls'[p].pc = "await"

\* a step in which a request of p fails on its client
FailedOn(p) ==
    pcalls[p].pc = "await" /\ pcalls'[p].pc # "await"
        /\ pcalls'[p].outcome = "fail"

\* C20 (as stated): the pool sends a request only to a client marked
\* healthy, taking the healthy clients in round-robin order, and a client
\* on which a request failed is marked unhealthy (so that it gets no request
\* until a health check on it succeeds).
C20_HealthAwareRoundRobin ==
    [][\A p \in PoolCallers :
          /\ Sent(p) =>
                /\ pool.health[pcalls'[p].client]
                /\ pcalls'[p].client = NextHealthy(pool.last, pool.health)
          /\ FailedOn(p) => ~pool'.health[pcalls[p].client]]_vars

\* a request of p has ended because the pool had no client marked healthy
RefusedForHealth(p) == pcalls[p].pc = "done" /\ pcalls[p].outcome = None

\* C21 (as stated): when no client of the pool is marked healthy, every pool
\* operation fails with the no-healthy-backend error, and contacts no client.
C21_NoHealthyBackend ==
    \A p \in PoolCallers :
        RefusedForHealth(p) =>
            /\ pcalls[p].result = "NoHealthyClients"
            /\ pcalls[p].client = Never

\* SpecCache: get and set on one ConductorCache, with the clock.  The clock
\* is time.time(): two calls can read the same value.
InitCache == InitDefault /\ targetStages = {}

NextCache ==
    \/ \E k \in CacheKeys : CacheGet(k)
    \/ \E k \in CacheKeys : CacheSet(k)
    \/ Tick

SpecCache == InitCache /\ [][NextCache]_vars

\* a step that inserts a key the full cache does not hold
InsertsIntoFull(k) ==
    /\ k \notin DOMAIN cache.entries
    /\ Cardinality(DOMAIN cache.entries) = max_size
    /\ k \in DOMAIN cache'.entries

\* C22 (as stated): inserting a new key into a full cache removes exactly the
\* least-recently-accessed key, a get counting as an access, and leaves
\* all other keys present.
C22_EvictsLeastRecent ==
    [][\A k \in CacheKeys : InsertsIntoFull(k) =>
          DOMAIN cache'.entries =
              ((DOMAIN cache.entries) \ {Head(cache.recent)}) \cup {k}]_vars

\* call r carried an InstanceJoinRequest that went through the pipeline up to
\* its handler: the Conductor returned a receipt and the call has ended
JoinProcessed(r) ==
    /\ req[r].pc = "done"
    /\ req[r].envelope.message_type = "InstanceJoinRequest"
    /\ \E e \in SubmissionsOf(r) : e.outcome = "receipt"

BlacklistProcessed(r) ==
    /\ req[r].pc = "done"
    /\ req[r].verified
    /\ req[r].envelope.message_type = "BlacklistUpdate"
    /\ req[r].envelope.message_data.wellFormed
    /\ ActionOfAux(req[r].envelope.message_data.aux) = "add"

Blacklisted(r) == InstanceOfSubject(req[r].envelope.message_data.subject)

\* C24 (as stated): after a BlacklistUpdate{action = add, instance_id = X}
\* from a trusted sender has been processed, every later envelope from X
\* fails as coming from an unknown instance.
C24_BlacklistedSenderRejected ==
    [][\A r1, r2 \in Requests :
          (/\ BlacklistProcessed(r1)
           /\ ReceivedNow(r2)
           /\ req'[r2].envelope.sender_instance = Blacklisted(r1))
          => req'[r2].exc = "PermissionError"]_vars

\* SpecAuth: requests with bearer tokens at the two bridge processes, which
\* share the JTI cache
InitAuth == InitDefault /\ targetStages = Targets

NextAuth ==
    \/ \E p \in Procs, token \in Tokens : JwtCall(p, token)
    \/ \E p \in Procs : JwtCommit(p)
    \/ \E p \in Procs, token \in Tokens : JwtDependency(p, token)
    \/ \E p \in Procs : JwtNext(p)
    \/ Tick

SpecAuth == InitAuth /\ [][NextAuth]_vars

\* a step in which the request at p gets its answer
AnsweredNow(p) == auth[p].pc # "done" /\ auth'[p].pc = "done"

\* a token with this jti has been accepted before
SeenJti(jti) == \E token \in accepted : token.jti = jti

\* C25 (as stated): no bearer token is accepted twice: a request whose token
\* carries a jti that was accepted before is answered 401 for as long as the
\* token passes the signature, issuer, audience and expiry checks.
C25_JtiAcceptedOnce ==
    [][\A p \in Procs :
          (/\ AnsweredNow(p)
           /\ SeenJti(auth'[p].token.jti)
           /\ Decodes(auth'[p].token))
          => auth'[p].status = "401"]_vars

\* SpecLimit: requests of the senders at the two bridge processes
InitLimit == InitDefault /\ targetStages = Targets

NextLimit ==
    \/ \E p \in Procs, sender \in Senders : RateLimit(p, sender)
    \/ \E p \in Procs, sender \in Senders : RateLimitDependency(p, sender)
    \/ Tick

SpecLimit == InitLimit /\ [][NextLimit]_vars

\* C26 (as stated): for each sender the requests let through in one window
\* never exceed default_rps, and those let through in two adjacent windows
\* never exceed burst.
C26_RateLimit ==
    \A sender \in Senders, w \in Windows :
        /\ admitted[sender][w] <= federation_rate_limits_default_rps
        /\ w > 0 => admitted[sender][w - 1] + admitted[sender][w]
                        <= federation_rate_limits_burst

\* SpecDayProof: get_day_proof calls at the two bridge processes, which
\* share the day_proofs table
InitDayProof == InitDefault /\ targetStages = Targets

NextDayProof ==
    \/ \E p \in Procs, n \in Days : GetDayProof(p, n)
    \/ \E p \in Procs, n \in Days : ConductorAnswer(p, ConductorProof(n))
    \/ \E p \in Procs : ConductorAnswer(p, NoDayProof)
    \/ \E p \in Procs : UpsertCommit(p)
    \/ \E p \in Procs : DayProofReturn(p)
    \/ Tick

SpecDayProof == InitDayProof /\ [][NextDayProof]_vars

\* a step in which the get_day_proof call at p ends
DayProofEnds(p) == dp[p].pc # "done" /\ dp'[p].pc = "done"

\* C27 (as stated): a get_day_proof(n) that misses the repository and gets
\* the proof from the Conductor ends with the proof stored and returned; a
\* get_day_proof(n) that finds the proof stored returns it without a
\* Conductor call.
C27_DayProofReadThrough ==
    [][\A p \in Procs : DayProofEnds(p) =>
          LET n == dp'[p].day IN
          /\ dp'[p].proof # NoDayProof =>
                /\ n \in DOMAIN dayProofs'
                /\ dp'[p].result # NoDayProof
                /\ dp'[p].result.proof = dp'[p].proof.proof
                /\ dp'[p].result.day_number = n
          /\ n \in DOMAIN dayProofs =>
                \/ dp[p].pc # "idle"
                \/ /\ ~dp'[p].fetched
                   /\ dp'[p].result = StoredDayProof(dayProofs, n)]_vars

\* a step in which a worker ends its post of export row j and the row is
\* left for a retry: a failed attempt within activitypub_max_retries
RetryScheduled(j) ==
    /\ \E w \in Procs : /\ wk[w].pc = "post"
                        /\ Head(wk[w].batch).id = j
                        /\ wk'[w] # wk[w]
    /\ exportLedger'[j].status = "retrying"

BackoffBound ==
    activitypub_retry_delay_seconds * (2 ^ activitypub_max_retries)

InitFingerprint == InitDefault /\ targetStages = Targets

NextFingerprint ==
    /\ prints = NoFingerprints
    /\ \E E1 \in FieldTriples, E2 \in FieldTriples : Fingerprints(E1, E2)

SpecFingerprint == InitFingerprint /\ [][NextFingerprint]_vars

\* C29: the fingerprints of two envelopes are equal exactly when their
\* (sender_instance, message_type, message_data) are byte-identical.
C29_FingerprintInjective ==
    prints # NoFingerprints =>
        ((prints.f1 = prints.f2) <=> (prints.E1 = prints.E2))

\* witness for C29: two envelopes that differ only in where the field
\* boundaries lie, with different fingerprints
C29_Witness ==
    /\ prints # NoFingerprints
    /\ prints.E1 # prints.E2
    /\ Concatenated(prints.E1) = Concatenated(prints.E2)
    /\ prints.f1 # prints.f2

\* call r carried a PostAnnouncement that the bridge accepted: the Conductor
\* returned a receipt and the call has ended
PostAccepted(r) ==
    /\ req[r].pc = "done"
    /\ req[r].envelope.message_type = "PostAnnouncement"
    /\ \E e \in SubmissionsOf(r) : e.outcome = "receipt"

\* C30 (as stated): two bridges that each accepted the same source event
\* have enqueued, for every target, outbound envelopes that agree in
\* sender_instance, message_type, message_data and nonce (a function of the
\* message), hence in fingerprint.
C30_SameOutboundEnvelope ==
    \A r1, r2 \in Requests :
        (/\ PostAccepted(r1) /\ PostAccepted(r2)
         /\ req[r1].proc # req[r2].proc
         /\ req[r1].envelope = req[r2].envelope)
        => \A target \in targetStages :
              \E row1 \in LedgerOf(r1), row2 \in LedgerOf(r2) :
                  /\ row1.target_instance_url = target
                  /\ row2.target_instance_url = target
                  /\ row1.raw_envelope = row2.raw_envelope
                  /\ Fingerprint(row1.raw_envelope) = Fingerprint(row2.raw_envelope)

\* SpecPublish: the publish timestamps of posts of several days
InitPublish == InitDefault /\ targetStages = Targets

NextPublish ==
    \E post_id \in PostIds, day_number \in DayNumbers, offset \in Offsets :
        BuildNote(post_id, day_number, offset)

SpecPublish == InitPublish /\ [][NextPublish]_vars

\* C31 (as stated): the publish timestamp of a post of day d lies in
\* [genesis + d * 86400, genesis + (d + 1) * 86400), so a post of an earlier
\* day gets a strictly smaller timestamp than any post of a later day.
C31_PublishWithinDay ==
    /\ \A k \in DOMAIN published :
          /\ published[k].ts >= genesis_timestamp + k[2] * SecondsPerDay
          /\ published[k].ts < genesis_timestamp + (k[2] + 1) * SecondsPerDay
    /\ \A k1, k2 \in DOMAIN published :
          k1[2] < k2[2] => published[k1].ts < published[k2].ts

\* SpecStop: the ActivityPub workers of SpecExport, each of which may be
\* stopped
InitStop == InitExport

NextStop ==
    \/ \E w \in Procs, order \in Orders(DueExports) :
           _process_queued_exports(w, order)
    \/ \E w \in Procs, outcome \in {"2xx", "error"} :
           _deliver_export(w, outcome)
    \/ \E w \in Procs : stop(w)
    \/ Tick

SpecStop == InitStop /\ [][NextStop]_vars

\* a step in which worker w sends the post of a row
AttemptStarts(w) ==
    /\ wk'[w].pc = "post"
    /\ wk'[w] # wk[w]

SignedByBridge(envelope) == envelope.signature = "kB"

InitSigned == InitDefault /\ targetStages = {}

NextSigned ==
    \/ \E r \in Requests, p \in Procs, stage_instance \in Instances,
          request \in SignedRequests, submit \in {"receipt", "error"} :
           queue_activitypub_export(r, p, stage_instance, request, submit)
    \/ \E r \in Requests, p \in Procs, stage_instance \in Instances,
          request \in SignedRequests, submit \in {"receipt", "error"} :
           record_moderation_event(r, p, stage_instance, request, submit)

SpecSigned == InitSigned /\ [][NextSigned]_vars

\* the request of call r carries a signature that verifies under the key the
\* trust store holds for its stage_instance
SignatureVerifies(r) ==
    LET c == signedCalls[r] IN
    /\ c.request.wellFormed
    /\ trustStore[c.proc][c.stage_instance] # None
    /\ verify_signature(c.request.signature, trustStore[c.proc][c.stage_instance])

EventsOf(r) == {e \in signedEvents : e.call = r}

\* C34 (as stated): a handled queue_activitypub_export or
\* record_moderation_event request has its ledger row or moderation record,
\* together with exactly one Conductor event whose epoch is the creation_day
\* of the message, if and only if its signature verifies under
\* TrustStore[stage_instance]; a request that fails verification has neither.
C34_SignedRequestEffects ==
    \A r \in Requests : signedCalls[r].pc = "done" =>
        IF SignatureVerifies(r)
        THEN /\ \E row \in signedRows : row.call = r
             /\ Cardinality(EventsOf(r)) = 1
             /\ \A e \in EventsOf(r) : e.epoch = signedCalls[r].request.creation_day
        ELSE /\ ~\E row \in signedRows : row.call = r
             /\ EventsOf(r) = {}


\* a step in which the delivery worker w has handled a failed post
FailedDelivery(w) ==
    /\ wk[w].pc = "post"
    /\ wk'[w] # wk[w]
    /\ exportLedger'[Head(wk[w].batch).id].status # "delivered"

InitOutboundFair == InitOutbound

SpecOutboundFair ==
    /\ InitOutboundFair
    /\ [][NextOutbound]_vars
    /\ WF_vars(\E w \in Procs : _process_queued_messages(w))
    /\ WF_vars(\E w \in Procs, outcome \in {"2xx", "error"} :
                   _send_message_done(w, outcome))

TerminalStatus == {"delivered", "failed"}

OutboundTerminated(r, target) ==
    \A row \in outboundLedger :
        row.id = <<r, target>> => row.status \in TerminalStatus

ExportTerminated(j) ==
    j \in DOMAIN exportLedger => exportLedger[j].status \in TerminalStatus

TrustedPeers(keys) == {i \in Instances : keys[i] # None}

\* the step is the dispatch of call r by process p
DispatchedNow(r, p) ==
    req[r].pc = "dispatch" /\ req[r].proc = p /\ req'[r].pc # "dispatch"

InitEdge == InitDefault /\ targetStages = {}

NextEdge ==
    \/ \E p \in Procs, sender \in Senders, token \in EdgeTokens :
           EdgeCall(p, sender, token)
    \/ \E p \in Procs, sender \in Senders, token \in EdgeTokens :
           EdgeDependency(p, sender, token)
    \/ Tick

SpecEdge == InitEdge /\ [][NextEdge]_vars

\* the step answers a request at process p
EdgeAnswered(p) == edge'[p] # edge[p] \/ requests'[p] # requests[p]

\* the count the limiter of p holds for the sender in the window
EdgeCount(reqs, sender, window) ==
    IF sender \in DOMAIN reqs THEN CountOf(reqs[sender], window) ELSE 0

\* C38 (as stated): a request is authenticated before it is rate-limited: a
\* request that fails authentication is answered 401 and is not counted by
\* the rate limiter under the instance id it claims, and an authenticated
\* request is answered 429 only when the authenticated requests of its
\* instance alone exceed the limits.
C38_AuthBeforeRateLimit ==
    [][\A p \in Procs : EdgeAnswered(p) =>
          LET e == edge'[p]
              window == now \div window_size IN
          IF ~Authenticates(e.token)
          THEN /\ e.status = "401"
               /\ EdgeCount(requests'[p], e.sender, window)
                     = EdgeCount(requests[p], e.sender, window)
          ELSE e.status = "429"
                  => ~WithinLimits(authentic'[p], e.sender, window)]_vars


\* SpecSubmit: the events of two accepted envelopes, submitted through one
\* conductor client
InitSubmit == InitDefault /\ targetStages = {}

NextSubmit ==
    \/ \E c \in Callers : SubmitEvent(c)
    \/ \E c \in Callers, outcome \in TransportOutcomes : SubmitAnswer(c, outcome)
    \/ \E c \in Callers : SubmitRetry(c)
    \/ Tick

SpecSubmit == InitSubmit /\ [][NextSubmit]_vars

\* C39 (as stated): the Conductor backend receives the event of an accepted
\* envelope at most once, also when an attempt times out or loses its
\* response and the client sends the event again.
C39_SingleDelivery == \A c \in Callers : received[c] <= 1


\* the entry of key j is past its ttl, so that a get of j deletes it
ExpiredEntry(j) == now - cache.entries[j].timestamp > cache.entries[j].ttl

\* C40 (as stated): set removes an entry only when it inserts a key that is
\* not yet present into a cache holding max_size entries: a step in which a
\* key leaves the cache is such an insertion (or the get that deletes the
\* expired entry), and a set of a key that is present evicts no other key.
C40_EvictionOnlyOnInsert ==
    [][\A j \in CacheKeys :
          (j \in DOMAIN cache.entries /\ j \notin DOMAIN cache'.entries)
              => \/ \E k \in CacheKeys : InsertsIntoFull(k)
                 \/ ExpiredEntry(j)]_vars

====
